---- MODULE Spec2Model ----
(***************************************************************************)
(* Signed HTTP transport and retry loop of go-nova                         *)
(* (internal/httpclient/client.go, internal/signature, internal/jsonutil,  *)
(* option.go).  One logical call DoJSON on one constructed client.         *)
(***************************************************************************)
EXTENDS Integers, Sequences, FiniteSets, TLC

(***************************************************************************)
(* Bounds of the model.                                                    *)
(***************************************************************************)
\* largest retry-attempt argument handed to WithRetry / New
MaxAttemptsArg == 3

(***************************************************************************)
(* Byte slices.  Go distinguishes a nil slice from an empty one.           *)
(***************************************************************************)
NilBytes == [isNil |-> TRUE, b |-> <<>>]

Bytes(s) == [isNil |-> FALSE, b |-> s]

\* ASCII codes the JSON encoder treats specially
ChNL == 10

ChQuote == 34

ChBackslash == 92

ChLT == 60

(***************************************************************************)
(* time.Duration: a signed 64-bit nanosecond count, kept as four 16-bit    *)
(* limbs, least significant first, in two's complement.                    *)
(***************************************************************************)
LimbBase == 256 * 256

DurZero == <<0, 0, 0, 0>>

DurMinusOne == <<LimbBase - 1, LimbBase - 1, LimbBase - 1, LimbBase - 1>>

DurOneNs == <<1, 0, 0, 0>>

\* 300 * time.Millisecond = 300000000 ns = 4577 * 65536 + 41728
Dur300ms == <<41728, 4577, 0, 0>>

\* 2^62 ns, accepted by WithRetry (wait > 0)
DurTwo62 == <<0, 0, 0, LimbBase \div 4>>

DurNegative(d) == d[4] >= LimbBase \div 2

DurLeqZero(d) == DurNegative(d) \/ d = DurZero

DurPositive(d) == ~DurLeqZero(d)

\* d * 2 in int64 arithmetic: the carry out of the top limb is lost
DurDouble(d) ==
    LET c1 == 2 * d[1]
        c2 == 2 * d[2] + (c1 \div LimbBase)
        c3 == 2 * d[3] + (c2 \div LimbBase)
        c4 == 2 * d[4] + (c3 \div LimbBase)
    IN  <<c1 % LimbBase, c2 % LimbBase, c3 % LimbBase, c4 % LimbBase>>

(***************************************************************************)
(* Error values: the chain errors.Is / errors.As walk, outermost first.    *)
(* The nil error is the empty chain.                                       *)
(***************************************************************************)
ErrLayer(t) == [t |-> t, code |-> 0, body |-> NilBytes]

NoErr == <<>>

Canceled == <<ErrLayer("context.Canceled")>>

DeadlineExceeded == <<ErrLayer("context.DeadlineExceeded")>>

\* *url.Error{Err: inner}, what http.Client.Do returns for every failure
URLError(inner) == <<ErrLayer("*url.Error")>> \o inner

\* *net.OpError (connection refused, reset, DNS failure)
OpError == <<ErrLayer("*net.OpError")>>

\* http.Client.Timeout expiry: implements net.Error and Is(DeadlineExceeded)
ClientTimeout == <<ErrLayer("*http.timeoutError")>>

\* the server closed the connection before the announced body length
UnexpectedEOF == <<ErrLayer("io.ErrUnexpectedEOF")>>

\* a Do failure that is no net.Error: TLS verification, redirect policy
PlainDoError == <<ErrLayer("*tls.CertificateVerificationError")>>

NewRequestError == <<ErrLayer("*fmt.wrapError(net/http: invalid method)")>>

HTTPStatusErrorOf(code, body) == <<[t |-> "*HTTPStatusError", code |-> code, body |-> body]>>

DecodeError == <<ErrLayer("*fmt.wrapError(decode json response)"), ErrLayer("*json.SyntaxError")>>

SignNoKeyError == <<ErrLayer("*errors.errorString(signature: private key is not configured)")>>

SignBadHashError == <<ErrLayer("*fmt.wrapError(unsupported signature hash algorithm)")>>

\* the types of the chain layers that implement net.Error
NetErrorTypes == {"*url.Error", "*net.OpError", "*http.timeoutError", "context.DeadlineExceeded"}

LayerIs(l, target) ==
    \/ l.t = target
    \/ l.t = "*http.timeoutError" /\ target = "context.DeadlineExceeded"

ErrorsIs(err, target) == \E i \in 1..Len(err) : LayerIs(err[i], target)

\* index of the first layer of one of the types, 0 if errors.As fails
ErrorsAsIndex(err, types) ==
    IF \E i \in 1..Len(err) : err[i].t \in types
    THEN CHOOSE i \in 1..Len(err) :
            /\ err[i].t \in types
            /\ \A j \in 1..(i - 1) : err[j].t \notin types
    ELSE 0

IsCtxError(err) ==
    ErrorsIs(err, "context.Canceled") \/ ErrorsIs(err, "context.DeadlineExceeded")

StatusTooManyRequests == 429

StatusNotImplemented == 501

\* isRetryable without the 501 exception: every 5xx is retried
isRetryable_All5xx(err, resp) ==
    IF err = NoErr THEN FALSE
    ELSE IF IsCtxError(err) THEN FALSE
    ELSE LET hs == ErrorsAsIndex(err, {"*HTTPStatusError"})
             ue == ErrorsAsIndex(err, {"*url.Error"})
         IN  IF hs # 0
             THEN err[hs].code = StatusTooManyRequests \/ err[hs].code >= 500
             ELSE IF ue # 0 THEN ~IsCtxError(SubSeq(err, ue + 1, Len(err)))
             ELSE ErrorsAsIndex(err, NetErrorTypes) # 0

\* isRetryable without the two context checks
isRetryable_NoCtxCheck(err, resp) ==
    IF err = NoErr THEN FALSE
    ELSE LET hs == ErrorsAsIndex(err, {"*HTTPStatusError"})
             ue == ErrorsAsIndex(err, {"*url.Error"})
         IN  IF hs # 0
             THEN \/ err[hs].code = StatusTooManyRequests
                  \/ (err[hs].code >= 500 /\ err[hs].code # StatusNotImplemented)
             ELSE IF ue # 0 THEN TRUE
             ELSE ErrorsAsIndex(err, NetErrorTypes) # 0

\* isRetryable ending in `return true`: every unclassified error is retried
isRetryable_RetryUnknown(err, resp) ==
    IF err = NoErr THEN FALSE
    ELSE IF IsCtxError(err) THEN FALSE
    ELSE LET hs == ErrorsAsIndex(err, {"*HTTPStatusError"})
             ue == ErrorsAsIndex(err, {"*url.Error"})
         IN  IF hs # 0
             THEN \/ err[hs].code = StatusTooManyRequests
                  \/ (err[hs].code >= 500 /\ err[hs].code # StatusNotImplemented)
             ELSE IF ue # 0 THEN ~IsCtxError(SubSeq(err, ue + 1, Len(err)))
             ELSE TRUE

isRetryable(err, resp) ==
    IF err = NoErr THEN FALSE
    ELSE IF IsCtxError(err) THEN FALSE
    ELSE LET hs == ErrorsAsIndex(err, {"*HTTPStatusError"})
             ue == ErrorsAsIndex(err, {"*url.Error"})
         IN  IF hs # 0
             THEN \/ err[hs].code = StatusTooManyRequests
                  \/ (err[hs].code >= 500 /\ err[hs].code # StatusNotImplemented)
             ELSE IF ue # 0
             THEN LET inner == SubSeq(err, ue + 1, Len(err))
                  IN  IF IsCtxError(inner) THEN FALSE
                      ELSE IF ErrorsAsIndex(inner, NetErrorTypes) # 0 THEN TRUE
                      ELSE TRUE
             ELSE IF ErrorsAsIndex(err, NetErrorTypes) # 0 THEN TRUE
             ELSE FALSE

(***************************************************************************)
(* Request bodies (the `body any` argument) and their encoding.            *)
(***************************************************************************)
\* kind: "nil", "bytes" ([]byte), "string", "json" (any other marshalable
\* value, here a value of a defined string type), "unsupported" (a value
\* encoding/json rejects, such as a channel), "struct" (a request struct,
\* bs its JSON text), "nilptr" (a nil pointer to a request struct)
BodyValue(kind, bs) == [kind |-> kind, bs |-> bs]

RECURSIVE EscapeJSON(_, _)
\* the bytes encoding/json writes for the characters of a string value
EscapeJSON(chars, escapeHTML) ==
    IF chars = <<>> THEN <<>>
    ELSE LET c == Head(chars)
             e == IF c = ChQuote THEN <<ChBackslash, ChQuote>>
                  ELSE IF c = ChBackslash THEN <<ChBackslash, ChBackslash>>
                  ELSE IF c = ChNL THEN <<ChBackslash, 110>>
                  ELSE IF c = ChLT /\ escapeHTML THEN <<ChBackslash, 117, 48, 48, 51, 99>>
                  ELSE <<c>>
         IN  e \o EscapeJSON(Tail(chars), escapeHTML)

\* json.Encoder.Encode: the value's JSON text followed by a newline
EncoderEncode(v, escapeHTML) ==
    IF v.kind = "unsupported"
    THEN [out |-> <<>>, err |-> <<ErrLayer("*json.UnsupportedTypeError")>>]
    ELSE IF v.kind = "struct" THEN [out |-> v.bs.b \o <<ChNL>>, err |-> NoErr]
    ELSE IF v.kind = "nilptr" THEN [out |-> <<110, 117, 108, 108, ChNL>>, err |-> NoErr]
    ELSE [out |-> <<ChQuote>> \o EscapeJSON(v.bs.b, escapeHTML) \o <<ChQuote, ChNL>>,
          err |-> NoErr]

\* jsonutil.Marshal
Marshal(v) ==
    LET enc == EncoderEncode(v, FALSE)
        b   == enc.out
        cut == IF Len(b) > 0 /\ b[Len(b)] = ChNL THEN SubSeq(b, 1, Len(b) - 1) ELSE b
    IN  IF enc.err # NoErr THEN [bytes |-> NilBytes, err |-> enc.err]
        ELSE [bytes |-> Bytes(cut), err |-> NoErr]

\* a prepareBody that hands back the caller's byte slice itself
prepareBody_Shared(body) ==
    IF body.kind = "nil" THEN [bytes |-> NilBytes, err |-> NoErr]
    ELSE IF body.kind = "bytes"
    THEN [bytes |-> [isNil |-> FALSE, b |-> <<>>, shared |-> TRUE], err |-> NoErr]
    ELSE IF body.kind = "string" THEN [bytes |-> Bytes(body.bs.b), err |-> NoErr]
    ELSE LET m == Marshal(body)
         IN  IF m.err # NoErr
             THEN [bytes |-> NilBytes,
                   err |-> <<ErrLayer("*fmt.wrapError(marshal json body)")>> \o m.err]
             ELSE [bytes |-> m.bytes, err |-> NoErr]

prepareBody(body) ==
    IF body.kind = "nil" THEN [bytes |-> NilBytes, err |-> NoErr]
    ELSE IF body.kind = "bytes"
    THEN IF Len(body.bs.b) = 0 THEN [bytes |-> Bytes(<<>>), err |-> NoErr]
         ELSE [bytes |-> Bytes(body.bs.b), err |-> NoErr]
    ELSE IF body.kind = "string" THEN [bytes |-> Bytes(body.bs.b), err |-> NoErr]
    ELSE LET m == Marshal(body)
         IN  IF m.err # NoErr
             THEN [bytes |-> NilBytes,
                   err |-> <<ErrLayer("*fmt.wrapError(marshal json body)")>> \o m.err]
             ELSE [bytes |-> m.bytes, err |-> NoErr]

(***************************************************************************)
(* Signature engine (internal/signature).  A digest and an RSA signature   *)
(* are kept symbolically: which key, which hash, over which bytes.         *)
(***************************************************************************)
\* header values: plain strings and base64 signature strings
Str(s) == [text |-> s, key |-> "", hash |-> "", over |-> <<>>]

SigString(key, hash, data) == [text |-> "base64", key |-> key, hash |-> hash, over |-> data]

HashSHA256 == "SHA-256"

HashSHA1 == "SHA-1"

digest(algo, data) ==
    IF algo \in {HashSHA256, "", "sha256", "SHA256"}
    THEN [hash |-> "crypto.SHA256", sum |-> data, err |-> NoErr]
    ELSE IF algo \in {HashSHA1, "sha1", "SHA1"}
    THEN [hash |-> "crypto.SHA1", sum |-> data, err |-> NoErr]
    ELSE [hash |-> "", sum |-> <<>>, err |-> SignBadHashError]

\* a Signer interface value; isNil is the nil interface, priv = "" a nil
\* PrivateKey, pub = "" a nil PublicKey
NoSigner == [isNil |-> TRUE, priv |-> "", pub |-> "", hash |-> ""]

RSASigner(priv, hash) == [isNil |-> FALSE, priv |-> priv, pub |-> "", hash |-> hash]

\* a Sign that does not look whether a private key is set
Sign_NoKeyCheck(s, body) ==
    LET d == digest(s.hash, body)
    IN  IF d.err # NoErr THEN [sig |-> Str(""), err |-> d.err]
        ELSE [sig |-> SigString(s.priv, d.hash, d.sum), err |-> NoErr]

\* RSASigner.Sign
Sign(s, body) ==
    IF s.priv = "" THEN [sig |-> Str(""), err |-> SignNoKeyError]
    ELSE LET d == digest(s.hash, body)
         IN  IF d.err # NoErr THEN [sig |-> Str(""), err |-> d.err]
             ELSE [sig |-> SigString(s.priv, d.hash, d.sum), err |-> NoErr]

(***************************************************************************)
(* Request headers.  http.Header.Set stores under the canonical key.       *)
(***************************************************************************)
CanonicalHeaderKey(k) ==
    CASE k \in {"x-sign", "X-SIGN", "X-Sign"} -> "X-Sign"
      [] k \in {"x-merchant-id", "X-Merchant-Id"} -> "X-Merchant-Id"
      [] k \in {"accept", "Accept"} -> "Accept"
      [] k \in {"content-type", "Content-Type"} -> "Content-Type"
      [] OTHER -> k

NoHeaders == [k \in {} |-> Str("")]

HeaderSet(h, k, v) == (CanonicalHeaderKey(k) :> v) @@ h

HeaderXSign == "x-sign"

HeaderXMerchantID == "x-merchant-id"

\* the orders in which a range over a map may visit its keys
MapOrders(m) ==
    {o \in [1..Cardinality(DOMAIN m) -> DOMAIN m] :
        \A i, j \in DOMAIN o : i # j => o[i] # o[j]}

RECURSIVE ApplyDefaultHeaders_KeepEmpty(_, _, _)
\* a loop over the default headers that skips nothing
ApplyDefaultHeaders_KeepEmpty(h, m, order) ==
    IF order = <<>> THEN h
    ELSE ApplyDefaultHeaders_KeepEmpty(HeaderSet(h, Head(order), Str(m[Head(order)])), m,
                                       Tail(order))

RECURSIVE ApplyDefaultHeaders(_, _, _)
ApplyDefaultHeaders(h, m, order) ==
    IF order = <<>> THEN h
    ELSE LET k    == Head(order)
             next == IF k = "" \/ m[k] = "" THEN h ELSE HeaderSet(h, k, Str(m[k]))
         IN  ApplyDefaultHeaders(next, m, Tail(order))

\* a cloneHeaders that hands back the map it was given
cloneHeaders_Shared(in) == ("(the caller's map)" :> "")

cloneHeaders(in) == IF Cardinality(DOMAIN in) = 0 THEN NoHeaders ELSE [k \in DOMAIN in |-> in[k]]

\* the header part of doOnce with x-sign set before the default headers
RequestHeaders_SignFirst(c, bodyBytes, sig, order) ==
    LET h1 == HeaderSet(NoHeaders, "Accept", Str("application/json"))
        h2 == IF ~bodyBytes.isNil THEN HeaderSet(h1, "Content-Type", Str("application/json")) ELSE h1
        h3 == IF ~c.signer.isNil THEN HeaderSet(h2, HeaderXSign, sig) ELSE h2
    IN  ApplyDefaultHeaders(h3, c.defaultHeaders, order)

\* the header part of doOnce setting x-sign whether or not there is a signer
RequestHeaders_AlwaysSigned(c, bodyBytes, sig, order) ==
    LET h1 == HeaderSet(NoHeaders, "Accept", Str("application/json"))
        h2 == IF ~bodyBytes.isNil THEN HeaderSet(h1, "Content-Type", Str("application/json")) ELSE h1
        h3 == ApplyDefaultHeaders(h2, c.defaultHeaders, order)
    IN  HeaderSet(h3, HeaderXSign, sig)

\* the header part of doOnce: Accept, Content-Type, defaults, then x-sign
RequestHeaders(c, bodyBytes, sig, order) ==
    LET h1 == HeaderSet(NoHeaders, "Accept", Str("application/json"))
        h2 == IF ~bodyBytes.isNil THEN HeaderSet(h1, "Content-Type", Str("application/json")) ELSE h1
        h3 == ApplyDefaultHeaders(h2, c.defaultHeaders, order)
    IN  IF ~c.signer.isNil THEN HeaderSet(h3, HeaderXSign, sig) ELSE h3

\* the bytes handed to the signer
SigInput(bodyBytes) == IF bodyBytes.isNil THEN <<>> ELSE bodyBytes.b

(***************************************************************************)
(* Construction: option.go (defaultConfig, WithRetry, WithPrivateKey),     *)
(* NewClient and httpclient.New.                                           *)
(***************************************************************************)
\* httpclient.New keeping the retry arguments as given
New_NoNormalize(signer, retryAttempts, retryWait, defaultHeaders, rec, logBodies) ==
    [signer         |-> signer,
     logBodies      |-> logBodies,
     retryAttempts  |-> retryAttempts,
     retryWait      |-> retryWait,
     defaultHeaders |-> cloneHeaders(defaultHeaders),
     recorder       |-> rec]

\* httpclient.New; recorder is TRUE for a non-nil recorder.Recorder
New(signer, retryAttempts, retryWait, defaultHeaders, rec, logBodies) ==
    [signer         |-> signer,
     logBodies      |-> logBodies,
     retryAttempts  |-> IF retryAttempts <= 0 THEN 1 ELSE retryAttempts,
     retryWait      |-> IF DurLeqZero(retryWait) THEN Dur300ms ELSE retryWait,
     defaultHeaders |-> cloneHeaders(defaultHeaders),
     recorder       |-> rec]

DefaultAcquiringBaseURL == "https://api-qecom.novapay.ua"

DefaultComfortBaseURL == "https://contragent-api.novapay.ua"

(***************************************************************************)
(* The log package: levels, StdLogger, NopLogger.  A logger is the object  *)
(* the config and both transports point to.                                *)
(***************************************************************************)
LevelDebug == 0

LevelInfo == 1

LevelWarn == 2

LevelError == 3

LevelOff == 4

StdLogger(level) == [kind |-> "std", level |-> level]

NopLogger == [kind |-> "nop", level |-> LevelOff]

\* log.NewDefault()
NewDefault == StdLogger(LevelInfo)

\* the Level a Debugf, Infof, Warnf or Errorf call writes at
Severity(method) ==
    CASE method = "debug" -> LevelDebug
      [] method = "info" -> LevelInfo
      [] method = "warn" -> LevelWarn
      [] OTHER -> LevelError

\* a logger that writes what lies below its level and drops the rest
Writes_Inverted(lg, method) == lg.kind = "std" /\ lg.level > Severity(method)

\* whether the logger writes a message handed to the method: a StdLogger
\* returns when s.level > the method's level, a NopLogger always
Writes(lg, method) == lg.kind = "std" /\ ~(lg.level > Severity(method))

\* the messages the logger writes of those handed to it
Written(lg, msgs) == SelectSeq(msgs, LAMBDA m : Writes(lg, m.level))

\* StdLogger.SetLevel
SetLevel(lg, level) == [lg EXCEPT !.level = level]

defaultConfig ==
    [acquiringBaseURL  |-> DefaultAcquiringBaseURL,
     checkoutBaseURL   |-> DefaultAcquiringBaseURL,
     comfortBaseURL    |-> DefaultComfortBaseURL,
     retryAttempts     |-> 1,
     retryWait         |-> Dur300ms,
     comfortMerchantID |-> "",
     logger            |-> NewDefault,
     logBodies         |-> FALSE,
     recorder          |-> FALSE,
     externalSigner    |-> RSASigner("", HashSHA256),
     comfortSigner     |-> RSASigner("", HashSHA1)]

\* the options return the changed config, or err = TRUE and the config as it was
WithRetry(cfg, attempts, wait) ==
    IF attempts <= 0 THEN [cfg |-> cfg, err |-> TRUE]
    ELSE IF DurLeqZero(wait) THEN [cfg |-> cfg, err |-> TRUE]
    ELSE [cfg |-> [cfg EXCEPT !.retryAttempts = attempts, !.retryWait = wait], err |-> FALSE]

WithPrivateKey(cfg, key) ==
    IF key = "" THEN [cfg |-> cfg, err |-> TRUE]
    ELSE [cfg |-> [cfg EXCEPT !.externalSigner.priv = key, !.comfortSigner.priv = key],
          err |-> FALSE]

\* strings.TrimSpace for the merchant ids the model uses
TrimSpace(str) ==
    CASE str = " " -> ""
      [] str = " 42 " -> "42"
      [] OTHER -> str

WithComfortMerchantID(cfg, merchantID) ==
    IF TrimSpace(merchantID) = "" THEN [cfg |-> cfg, err |-> TRUE]
    ELSE [cfg |-> [cfg EXCEPT !.comfortMerchantID = TrimSpace(merchantID)], err |-> FALSE]

\* key is what ParseRSAPublicKeyPEM yields, "" when the PEM does not parse
WithPublicKeyPEM(cfg, key) ==
    IF key = "" THEN [cfg |-> cfg, err |-> TRUE]
    ELSE [cfg |-> [cfg EXCEPT !.externalSigner.pub = key, !.comfortSigner.pub = key],
          err |-> FALSE]

WithSignatureHash(cfg, hash) ==
    [cfg |-> [cfg EXCEPT !.externalSigner.hash = hash, !.comfortSigner.hash = hash],
     err |-> FALSE]

\* a WithExternalSignatureHash that sets the hash of both signers
WithExternalSignatureHash_Both(cfg, hash) ==
    [cfg |-> [cfg EXCEPT !.externalSigner.hash = hash, !.comfortSigner.hash = hash],
     err |-> FALSE]

WithExternalSignatureHash(cfg, hash) ==
    [cfg |-> [cfg EXCEPT !.externalSigner.hash = hash], err |-> FALSE]

WithComfortSignatureHash(cfg, hash) ==
    [cfg |-> [cfg EXCEPT !.comfortSigner.hash = hash], err |-> FALSE]

\* a nil Logger interface value
NilLogger == [kind |-> "nil", level |-> 0]

\* WithLogger: a nil logger stands for the NopLogger
WithLogger(cfg, logger) ==
    [cfg |-> [cfg EXCEPT !.logger = IF logger = NilLogger THEN NopLogger ELSE logger],
     err |-> FALSE]

WithRecorder(cfg, rec) == [cfg |-> [cfg EXCEPT !.recorder = rec], err |-> FALSE]

WithAcquiringBaseURL(cfg, baseURL) ==
    IF baseURL = "" THEN [cfg |-> cfg, err |-> TRUE]
    ELSE [cfg |-> [cfg EXCEPT !.acquiringBaseURL = baseURL], err |-> FALSE]

WithCheckoutBaseURL(cfg, baseURL) ==
    IF baseURL = "" THEN [cfg |-> cfg, err |-> TRUE]
    ELSE [cfg |-> [cfg EXCEPT !.checkoutBaseURL = baseURL], err |-> FALSE]

WithComfortBaseURL(cfg, baseURL) ==
    IF baseURL = "" THEN [cfg |-> cfg, err |-> TRUE]
    ELSE [cfg |-> [cfg EXCEPT !.comfortBaseURL = baseURL], err |-> FALSE]

\* the two transports NewClient builds from a finished config
ExternalHTTP(cfg) ==
    New(cfg.externalSigner, cfg.retryAttempts, cfg.retryWait, NoHeaders, cfg.recorder,
        cfg.logBodies)

\* a comfort transport built without default headers
ComfortHTTP_NoHeader(cfg) ==
    New(cfg.comfortSigner, cfg.retryAttempts, cfg.retryWait, NoHeaders, cfg.recorder,
        cfg.logBodies)

ComfortHTTP(cfg) ==
    New(cfg.comfortSigner, cfg.retryAttempts, cfg.retryWait,
        IF cfg.comfortMerchantID # "" THEN (HeaderXMerchantID :> cfg.comfortMerchantID)
        ELSE NoHeaders,
        cfg.recorder, cfg.logBodies)

(***************************************************************************)
(* Inputs.                                                                 *)
(***************************************************************************)
\* <<attempts, wait>> arguments of WithRetry and of httpclient.New
RetryArgs == {<<0, DurOneNs>>, <<1, DurZero>>, <<MaxAttemptsArg, DurMinusOne>>,
              <<2, DurOneNs>>, <<MaxAttemptsArg, DurTwo62>>}

KeyArgs == {"", "key1"}

ForgedHeaders == ("X-SIGN" :> "forged") @@ ("" :> "v")

MerchantHeaders == (HeaderXMerchantID :> "42") @@ ("X-Empty" :> "")

\* <<signer, default headers, recorder, logBodies>> handed to httpclient.New
\* directly
TransportArgs == {<<NoSigner, NoHeaders, TRUE, FALSE>>,
                  <<NoSigner, ForgedHeaders, FALSE, FALSE>>,
                  <<RSASigner("key1", "sha1"), ForgedHeaders, TRUE, FALSE>>,
                  <<RSASigner("key1", HashSHA256), MerchantHeaders, TRUE, TRUE>>,
                  <<RSASigner("key1", "MD5"), NoHeaders, TRUE, FALSE>>}

BodyArgs == {BodyValue("nil", NilBytes),
             BodyValue("bytes", NilBytes),
             BodyValue("bytes", Bytes(<<123, 125>>)),
             BodyValue("string", Bytes(<<97, ChNL>>)),
             BodyValue("json", Bytes(<<ChLT, ChQuote>>)),
             BodyValue("unsupported", NilBytes)}

\* response bodies: "{}" decodes into the output, "{" and "" do not
JSONObject == <<123, 125>>

ResponseBodies == {<<>>, JSONObject, <<123>>}

\* json.Unmarshal(raw, out) succeeds
Decodes(raw) == raw = JSONObject

\* <<body, out, urlOK, ctx>> arguments of DoJSON
CallArgs ==
    {<<b, out, TRUE, "cancellable">> : b \in BodyArgs, out \in BOOLEAN}
    \cup {<<BodyValue("nil", NilBytes), TRUE, TRUE, "nil">>}
    \cup {<<b, FALSE, FALSE, "cancellable">> :
            b \in {BodyValue("nil", NilBytes), BodyValue("unsupported", NilBytes)}}

StatusCodes == {199, 200, 299, 300, 404, 428, 429, 430, 499, 500, 501, 502}

CtxErrs == {"canceled", "deadline"}

CtxErrValue(e) == IF e = "canceled" THEN Canceled ELSE DeadlineExceeded

\* What the network does with one dispatched request.  kind "response": a
\* response is read completely; "readerr": headers arrive, reading the body
\* fails; "doerr": Do fails.  cancel # "" when the call's context ends while
\* the request is in flight, which is what makes Do or the read fail then.
NetChoice(kind, status, body, err, cancel) ==
    [kind |-> kind, status |-> status, body |-> body, err |-> err, cancel |-> cancel]

Responses ==
    {<<200, b>> : b \in ResponseBodies}
    \cup {<<st, <<>>>> : st \in StatusCodes \ {200}}
    \cup {<<500, <<123>>>>}

NetChoices(cancellable) ==
    {NetChoice("response", r[1], r[2], NoErr, "") : r \in Responses}
    \cup {NetChoice("readerr", st, <<>>, e, "") :
            st \in {200}, e \in {OpError, UnexpectedEOF, ClientTimeout}}
    \cup {NetChoice("doerr", 0, <<>>, URLError(e), "") :
            e \in {OpError, PlainDoError, ClientTimeout}}
    \cup (IF cancellable
          THEN {NetChoice("readerr", 200, <<>>, CtxErrValue(c), c) : c \in CtxErrs}
               \cup {NetChoice("doerr", 0, <<>>, URLError(CtxErrValue(c)), c) : c \in CtxErrs}
          ELSE {})

(***************************************************************************)
(* One attempt: Client.doOnce.                                             *)
(***************************************************************************)
RespNil == [isNil |-> TRUE, status |-> 0]

Resp(status) == [isNil |-> FALSE, status |-> status]

NoRequest == [built |-> FALSE, sent |-> FALSE, body |-> NilBytes, headers |-> NoHeaders]

\* what a failing recorder hook returns
HookError == <<ErrLayer("*errors.errorString(recorder: write failed)")>>

\* an attempt whose recorder hooks run in the opposite order
Outcome_EventsReversed(resp, raw, err, req, stage, ctxSeen, events, logs) ==
    [resp |-> resp, raw |-> raw, err |-> err, req |-> req, stage |-> stage,
     ctxSeen |-> ctxSeen,
     events |-> [i \in 1..Len(events) |-> events[Len(events) + 1 - i]], logs |-> logs]

\* an attempt that hands back the error of a failed recorder hook
Outcome_HookFailureWins(resp, raw, err, req, stage, ctxSeen, events, logs) ==
    [resp |-> resp, raw |-> raw,
     err |-> IF \E i \in DOMAIN events : events[i].hook # NoErr THEN HookError ELSE err,
     req |-> req, stage |-> stage, ctxSeen |-> ctxSeen, events |-> events, logs |-> logs]

\* resp, raw, err are what doOnce returns; req is the request it built and
\* whether the transport put it on the wire; stage is where it returned;
\* ctxSeen is ctx.Err() as it was when the attempt began; events are the
\* recorder hook calls it made and logs the messages it logged, in order
Outcome(resp, raw, err, req, stage, ctxSeen, events, logs) ==
    [resp |-> resp, raw |-> raw, err |-> err, req |-> req, stage |-> stage,
     ctxSeen |-> ctxSeen, events |-> events, logs |-> logs]

(***************************************************************************)
(* Logging: logBody and the text of an error (%v).                         *)
(***************************************************************************)
\* "size=%d bytes"
summarizeBytes(b) == [summary |-> TRUE, size |-> Len(b), text |-> <<>>]

\* s[:max] + "...(truncated)"
truncate(s, max) ==
    IF max <= 0 \/ Len(s) <= max THEN s
    ELSE SubSeq(s, 1, max) \o <<46, 46, 46, 40, 116, 114, 117, 110, 99, 97, 116, 101, 100, 41>>

\* strings.TrimSpace on ASCII text
RECURSIVE TrimLeft(_)
TrimLeft(s) ==
    IF s # <<>> /\ Head(s) \in {9, 10, 13, 32} THEN TrimLeft(Tail(s)) ELSE s

RECURSIVE TrimRight(_)
TrimRight(s) ==
    IF s # <<>> /\ s[Len(s)] \in {9, 10, 13, 32} THEN TrimRight(SubSeq(s, 1, Len(s) - 1)) ELSE s

\* json.Valid holds of "{}" alone among the texts of the model, and
\* json.Indent leaves "{}" as it is
prettyJSONPreview(b) ==
    IF Len(b) = 0 \/ b # <<123, 125>> THEN [text |-> <<>>, ok |-> FALSE]
    ELSE [text |-> truncate(b, 4096), ok |-> TRUE]

\* "<empty>", or the trimmed text; the bytes of the model are ASCII, hence
\* valid UTF-8
previewBytes(b) ==
    LET empty == <<60, 101, 109, 112, 116, 121, 62>>
        s     == TrimRight(TrimLeft(b))
    IN  IF Len(b) = 0 THEN empty
        ELSE IF s = <<>> THEN empty
        ELSE truncate(s, 4096)

logBody(b, verbose) ==
    IF ~verbose THEN summarizeBytes(b)
    ELSE IF prettyJSONPreview(b).ok
    THEN [summary |-> FALSE, size |-> 0, text |-> prettyJSONPreview(b).text]
    ELSE [summary |-> FALSE, size |-> 0, text |-> previewBytes(b)]

\* err.Error() as %v prints it: HTTPStatusError.Error gives the status and
\* up to 512 bytes of the response body, every other error its own text,
\* kept as the types of its chain
ErrorText(err) ==
    IF err # NoErr /\ err[1].t = "*HTTPStatusError"
    THEN LET body == err[1].body.b
         IN  [text |-> <<"unexpected status">>, code |-> err[1].code,
              body |-> IF Len(body) > 512 THEN SubSeq(body, 1, 512) ELSE body]
    ELSE [text |-> [i \in 1..Len(err) |-> err[i].t], code |-> 0, body |-> <<>>]

\* the arguments a log message may carry
NoLogFields ==
    [id |-> 0, attempt |-> 0, of |-> 0, wait |-> DurZero, status |-> 0,
     err |-> ErrorText(NoErr), body |-> summarizeBytes(<<>>)]

\* one logger call: Debugf, Warnf or Errorf, its message and its arguments
LogMsg(level, text, fields) == [level |-> level, text |-> text, f |-> fields]

(***************************************************************************)
(* The recorder hooks.                                                     *)
(***************************************************************************)
\* one call of a recorder hook: the hook, the request id, the body or the
\* error handed to it, and what the hook returned
Event(kind, id, body, err, ret) ==
    [kind |-> kind, id |-> id, body |-> body, err |-> err, hook |-> ret]

\* what a hook wrapper did: the hook calls and the messages logged
Hooked(events, logs) == [events |-> events, logs |-> logs]

recordRequest(c, requestID, body, hooksFail) ==
    IF ~c.recorder THEN Hooked(<<>>, <<>>)
    ELSE IF hooksFail
    THEN Hooked(<<Event("request", requestID, body, NoErr, HookError)>>,
                <<LogMsg("warn", "cannot record request", [NoLogFields EXCEPT !.err = ErrorText(HookError)])>>)
    ELSE Hooked(<<Event("request", requestID, body, NoErr, NoErr)>>, <<>>)

recordResponse(c, requestID, body, hooksFail) ==
    IF ~c.recorder THEN Hooked(<<>>, <<>>)
    ELSE IF hooksFail
    THEN Hooked(<<Event("response", requestID, body, NoErr, HookError)>>,
                <<LogMsg("warn", "cannot record response", [NoLogFields EXCEPT !.err = ErrorText(HookError)])>>)
    ELSE Hooked(<<Event("response", requestID, body, NoErr, NoErr)>>, <<>>)

\* a recordError that records nothing
recordError_Dropped(c, requestID, err, hooksFail) == Hooked(<<>>, <<>>)

recordError(c, requestID, err, hooksFail) ==
    IF ~c.recorder \/ err = NoErr THEN Hooked(<<>>, <<>>)
    ELSE IF hooksFail
    THEN Hooked(<<Event("error", requestID, <<>>, err, HookError)>>,
                <<LogMsg("warn", "cannot record error", [NoLogFields EXCEPT !.err = ErrorText(HookError)])>>)
    ELSE Hooked(<<Event("error", requestID, <<>>, err, NoErr)>>, <<>>)

(***************************************************************************)
(* Memory the transport may share with its caller.                         *)
(***************************************************************************)
\* a byte slice that is the caller's buffer itself, not a copy of it
SharedBytes == [isNil |-> FALSE, b |-> <<>>, shared |-> TRUE]

\* a header map that is the caller's map itself, not a copy of it
SharedMap == ("(the caller's map)" :> "")

\* the content of a slice when it is read: buffer is the caller's buffer then
BytesNow(x, buffer) == IF x = SharedBytes THEN Bytes(buffer) ELSE x

\* the default headers of a transport when they are read
HeadersNow(c, callerMap) ==
    IF c.defaultHeaders = SharedMap THEN callerMap ELSE c.defaultHeaders

\* What lies outside an attempt while it runs: the identifier the generator
\* hands out, whether the recorder's hooks return errors, the content of the
\* caller's body buffer when the body is signed and when it is sent, and the
\* caller's header map.
Memory(requestID, hooksFail, atSign, atSend, callerMap) ==
    [requestID |-> requestID, hooksFail |-> hooksFail, atSign |-> atSign,
     atSend |-> atSend, headers |-> callerMap]

\* a transport that sends whatever the state of the context
DispatchAllowed_Always(ctxErr) == TRUE

\* c.httpClient.Do(req): the transport refuses a request whose context has
\* already ended, without sending it
DispatchAllowed(ctxErr) == ctxErr = ""

doOnce(c, ctxErr, body, out, urlOK, net, order, mem) ==
    LET id   == mem.requestID
        hf   == mem.hooksFail
        pb   == prepareBody(body)
        sigInput == SigInput(BytesNow(pb.bytes, mem.atSign))
        sg   == IF c.signer.isNil THEN [sig |-> Str(""), err |-> NoErr]
                ELSE Sign(c.signer, sigInput)
        cc   == [c EXCEPT !.defaultHeaders = HeadersNow(c, mem.headers)]
        req  == [built |-> TRUE, sent |-> FALSE, body |-> BytesNow(pb.bytes, mem.atSend),
                 headers |-> RequestHeaders(cc, pb.bytes, sg.sig, order)]
        prep == LogMsg("debug", "request prepared",
                       [NoLogFields EXCEPT !.id = id, !.body = logBody(sigInput, c.logBodies)])
        rq   == recordRequest(c, id, sigInput, hf)
        rs   == recordResponse(c, id, net.body, hf)
        recv == LogMsg("debug", "response received",
                       [NoLogFields EXCEPT !.id = id, !.status = net.status,
                                           !.body = logBody(net.body, c.logBodies)])
        fail(resp, raw, err, rq0, stage, before) ==
            LET re == recordError(c, id, err, hf)
            IN  Outcome(resp, raw, err, rq0, stage, ctxErr,
                        before.events \o re.events, before.logs \o re.logs)
        none == Hooked(<<>>, <<>>)
        sentRq == Hooked(rq.events, <<prep>> \o rq.logs)
        gotRs  == Hooked(rq.events \o rs.events, <<prep>> \o rq.logs \o rs.logs \o <<recv>>)
    IN  IF pb.err # NoErr
        THEN fail(RespNil, NilBytes, pb.err, NoRequest, "encode", none)
        ELSE IF ~urlOK
        THEN fail(RespNil, NilBytes, NewRequestError, NoRequest, "newrequest", none)
        ELSE IF sg.err # NoErr
        THEN fail(RespNil, NilBytes, sg.err, NoRequest, "sign", none)
        ELSE IF ~DispatchAllowed(ctxErr)
        THEN fail(RespNil, NilBytes, URLError(CtxErrValue(ctxErr)), req, "dispatch", sentRq)
        ELSE LET sent == [req EXCEPT !.sent = TRUE]
                 st   == HTTPStatusErrorOf(net.status, Bytes(net.body))
             IN  IF net.kind = "doerr"
                 THEN fail(RespNil, NilBytes, net.err, sent, "dispatch", sentRq)
                 ELSE IF net.kind = "readerr"
                 THEN fail(Resp(net.status), NilBytes, net.err, sent, "read", sentRq)
                 ELSE IF net.status < 200 \/ net.status >= 300
                 THEN fail(Resp(net.status), Bytes(net.body), st, sent, "status", gotRs)
                 ELSE IF out /\ ~Decodes(net.body)
                 THEN fail(Resp(net.status), Bytes(net.body), DecodeError, sent, "decode", gotRs)
                 ELSE Outcome(Resp(net.status), Bytes(net.body), NoErr, sent, "ok", ctxErr,
                              gotRs.events, gotRs.logs)

(***************************************************************************)
(* Signature verification (RSASigner.Verify).                              *)
(***************************************************************************)
VerifyNoKeyError == <<ErrLayer("*errors.errorString(signature: public key is not configured)")>>

VerifyEmptyError == <<ErrLayer("*errors.errorString(signature: empty signature)")>>

VerifyBase64Error == <<ErrLayer("*fmt.wrapError(signature: invalid base64 signature)")>>

VerifyFailedError == <<ErrLayer("*fmt.wrapError(signature: verify failed)"), ErrLayer("rsa.ErrVerification")>>

\* the public key of a private key
PublicOf(priv) == IF priv = "key1" THEN "pub1" ELSE ""

\* encoding/base64 with the standard alphabet: the character of a 6-bit
\* value and the value of a character (-1 for a character outside the
\* alphabet); '=' pads
B64Char(i) ==
    IF i < 26 THEN 65 + i
    ELSE IF i < 52 THEN 97 + (i - 26)
    ELSE IF i < 62 THEN 48 + (i - 52)
    ELSE IF i = 62 THEN 43 ELSE 47

B64Value(c) ==
    IF c \in 65..90 THEN c - 65
    ELSE IF c \in 97..122 THEN c - 71
    ELSE IF c \in 48..57 THEN c + 4
    ELSE IF c = 43 THEN 62
    ELSE IF c = 47 THEN 63 ELSE -1

B64Pad == 61

RECURSIVE EncodeToString(_)
\* base64.StdEncoding.EncodeToString
EncodeToString(b) ==
    IF b = <<>> THEN <<>>
    ELSE IF Len(b) = 1
    THEN <<B64Char(b[1] \div 4), B64Char((b[1] % 4) * 16), B64Pad, B64Pad>>
    ELSE IF Len(b) = 2
    THEN <<B64Char(b[1] \div 4), B64Char((b[1] % 4) * 16 + b[2] \div 16),
           B64Char((b[2] % 16) * 4), B64Pad>>
    ELSE <<B64Char(b[1] \div 4), B64Char((b[1] % 4) * 16 + b[2] \div 16),
           B64Char((b[2] % 16) * 4 + b[3] \div 64), B64Char(b[3] % 64)>>
         \o EncodeToString(SubSeq(b, 4, Len(b)))

RECURSIVE DecodeQuanta(_)
\* the bytes of a run of alphabet characters; a last group of two characters
\* gives one byte, of three two bytes, the bits left over are dropped
DecodeQuanta(t) ==
    IF Len(t) < 2 THEN <<>>
    ELSE LET v1 == B64Value(t[1])
             v2 == B64Value(t[2])
             b1 == v1 * 4 + v2 \div 16
         IN  IF Len(t) = 2 THEN <<b1>>
             ELSE LET v3 == B64Value(t[3])
                      b2 == (v2 % 16) * 16 + v3 \div 4
                  IN  IF Len(t) = 3 THEN <<b1, b2>>
                      ELSE <<b1, b2, (v3 % 4) * 64 + B64Value(t[4])>>
                           \o DecodeQuanta(SubSeq(t, 5, Len(t)))

\* the number of '=' at the end of t
RECURSIVE TrailingPads(_)
TrailingPads(t) ==
    IF t # <<>> /\ t[Len(t)] = B64Pad THEN 1 + TrailingPads(SubSeq(t, 1, Len(t) - 1)) ELSE 0

\* Encoding.DecodeString of StdEncoding (padded) and RawStdEncoding (not
\* padded): '\r' and '\n' are skipped wherever they stand; the padded
\* encoding wants whole groups of four with at most two '=' filling the last
\* one, the unpadded encoding no '=' at all and no single left-over character
DecodeString(padded, str) ==
    LET t    == SelectSeq(str, LAMBDA c : c \notin {10, 13})
        pads == IF padded THEN TrailingPads(t) ELSE 0
        data == SubSeq(t, 1, Len(t) - pads)
        ok   == /\ \A i \in DOMAIN data : B64Value(data[i]) >= 0
                /\ IF padded THEN Len(t) % 4 = 0 /\ pads <= 2 ELSE Len(t) % 4 # 1
    IN  [ok |-> ok, bytes |-> IF ok THEN DecodeQuanta(data) ELSE <<>>]

\* rsa.SignPKCS1v15 and rsa.VerifyPKCS1v15, kept symbolic: the signature
\* bytes name the key and the hash and carry the digest
KeyByte(priv) == IF priv = "key1" THEN 1 ELSE IF priv = "key2" THEN 2 ELSE 0

HashByte(hash) == IF hash = "crypto.SHA256" THEN 1 ELSE IF hash = "crypto.SHA1" THEN 2 ELSE 0

SignPKCS1v15(priv, hash, sum) == <<KeyByte(priv), HashByte(hash)>> \o sum

VerifyPKCS1v15(pub, hash, sum, sig) ==
    \E priv \in {"key1", "key2"} :
        PublicOf(priv) = pub /\ sig = SignPKCS1v15(priv, hash, sum)

\* the characters of the string Sign returned
SigText(x) == EncodeToString(SignPKCS1v15(x.key, x.hash, x.over))

\* a decodeSignatureBase64 without the unpadded second try
decodeSignatureBase64_StdOnly(signatureBase64) ==
    LET t   == TrimLeft(TrimRight(signatureBase64))
        std == DecodeString(TRUE, t)
    IN  IF t = <<>> THEN [ok |-> FALSE, sig |-> <<>>, err |-> VerifyEmptyError]
        ELSE IF std.ok THEN [ok |-> TRUE, sig |-> std.bytes, err |-> NoErr]
        ELSE [ok |-> FALSE, sig |-> <<>>, err |-> VerifyBase64Error]

decodeSignatureBase64(signatureBase64) ==
    LET t   == TrimLeft(TrimRight(signatureBase64))
        std == DecodeString(TRUE, t)
        raw == DecodeString(FALSE, t)
    IN  IF t = <<>> THEN [ok |-> FALSE, sig |-> <<>>, err |-> VerifyEmptyError]
        ELSE IF std.ok THEN [ok |-> TRUE, sig |-> std.bytes, err |-> NoErr]
        ELSE IF raw.ok THEN [ok |-> TRUE, sig |-> raw.bytes, err |-> NoErr]
        ELSE [ok |-> FALSE, sig |-> <<>>, err |-> VerifyBase64Error]

\* a Verify that checks the key and not what was signed
Verify_AnyDigest(s, body, signatureBase64) ==
    IF s.isNil \/ s.pub = "" THEN VerifyNoKeyError
    ELSE LET dec == decodeSignatureBase64(signatureBase64)
             d   == digest(s.hash, body)
         IN  IF ~dec.ok THEN dec.err
             ELSE IF d.err # NoErr THEN d.err
             ELSE IF Len(dec.sig) >= 1 /\ dec.sig[1] = 1 /\ s.pub = "pub1" THEN NoErr
             ELSE VerifyFailedError

\* a Verify that digests the body before it decodes the signature
Verify_DigestFirst(s, body, signatureBase64) ==
    IF s.isNil \/ s.pub = "" THEN VerifyNoKeyError
    ELSE LET dec == decodeSignatureBase64(signatureBase64)
             d   == digest(s.hash, body)
         IN  IF d.err # NoErr THEN d.err
             ELSE IF ~dec.ok THEN dec.err
             ELSE IF VerifyPKCS1v15(s.pub, d.hash, d.sum, dec.sig) THEN NoErr
             ELSE VerifyFailedError

\* RSASigner.Verify
Verify(s, body, signatureBase64) ==
    IF s.isNil \/ s.pub = "" THEN VerifyNoKeyError
    ELSE LET dec == decodeSignatureBase64(signatureBase64)
             d   == digest(s.hash, body)
         IN  IF ~dec.ok THEN dec.err
             ELSE IF d.err # NoErr THEN d.err
             ELSE IF VerifyPKCS1v15(s.pub, d.hash, d.sum, dec.sig) THEN NoErr
             ELSE VerifyFailedError

(***************************************************************************)
(* The SDK client: errors.go, run_options.go and the service methods of    *)
(* the go_nova package.                                                    *)
(***************************************************************************)
FieldError(field, message) == [Field |-> field, Message |-> message]

\* validation reporting a plain error
ValidationErrorOf_Plain(fields) == <<ErrLayer("*errors.errorString(validation error)")>>

\* a *ValidationError with these Fields
ValidationErrorOf(fields) ==
    <<[t |-> "*ValidationError", code |-> 0, body |-> NilBytes, Fields |-> fields]>>

APIErrorOf(code, body) == <<[t |-> "*APIError", code |-> code, body |-> body]>>

ClientNilError == <<ErrLayer("*errors.errorString(client is nil)")>>

ComfortNotReadyError ==
    <<ErrLayer("*errors.errorString(comfort merchant id is not configured)")>>

JoinURLError == <<ErrLayer("*fmt.wrapError(invalid base url)"), ErrLayer("*url.Error")>>

\* a wrapAPIError that hands every error on as it is
wrapAPIError_Identity(err) == err

wrapAPIError(err) ==
    IF err = NoErr THEN NoErr
    ELSE LET hs == ErrorsAsIndex(err, {"*HTTPStatusError"})
         IN  IF hs # 0 THEN APIErrorOf(err[hs].code, err[hs].body) ELSE err

\* an ensureComfortReady that accepts every client
ensureComfortReady_Always(c) == NoErr

ensureComfortReady(c) ==
    IF c.isNil THEN ClientNilError
    ELSE IF c.cfg.comfortMerchantID = "" THEN ComfortNotReadyError
    ELSE NoErr

\* url.Parse fails on a base such as ":bad" (missing protocol scheme)
joinURL(base, p) ==
    IF base = ":bad" THEN [url |-> "", err |-> JoinURLError]
    ELSE [url |-> base \o p, err |-> NoErr]

\* the decimal text of a small index, as %d prints it
Itoa(i) ==
    CASE i = 0 -> "0"
      [] i = 1 -> "1"
      [] i = 2 -> "2"
      [] OTHER -> "3"

\* --- run options --------------------------------------------------------
\* a RunOption value: the nil option, or DryRun(handler...) where handler is
\* "" (no argument), "nil" (a nil handler) or the name of a caller's handler
NilRunOption == [isNil |-> TRUE, handler |-> ""]

DryRun(handler) == [isNil |-> FALSE, handler |-> handler]

defaultDryRunHandler == "defaultDryRunHandler"

NoRunOptions == [isNil |-> TRUE, dryRun |-> FALSE, dryRunHandle |-> ""]

\* applying one DryRun option to *runOptions
ApplyRunOption(o, opt) ==
    [isNil        |-> FALSE,
     dryRun       |-> TRUE,
     dryRunHandle |-> IF opt.handler \notin {"", "nil"} THEN opt.handler
                      ELSE defaultDryRunHandler]

RECURSIVE FoldRunOptions(_, _)
FoldRunOptions(o, opts) ==
    IF opts = <<>> THEN o
    ELSE FoldRunOptions(IF Head(opts).isNil THEN o ELSE ApplyRunOption(o, Head(opts)),
                        Tail(opts))

collectRunOptions(opts) ==
    IF Len(opts) = 0 THEN NoRunOptions
    ELSE FoldRunOptions([isNil |-> FALSE, dryRun |-> FALSE, dryRunHandle |-> ""], opts)

isDryRun(o) == ~o.isNil /\ o.dryRun

\* the handler invocations handleDryRun makes
handleDryRun(o, method, url, payload) ==
    IF o.isNil \/ ~o.dryRun \/ o.dryRunHandle = "" THEN <<>>
    ELSE <<[handler |-> o.dryRunHandle, method |-> method, url |-> url, payload |-> payload]>>

\* a shouldDryRun that reports a dry run without calling the handler
shouldDryRun_Silent(runOpts, method, url, payload) ==
    LET opts == collectRunOptions(runOpts)
    IN  IF ~isDryRun(opts) THEN [dry |-> FALSE, calls |-> <<>>]
        ELSE [dry |-> TRUE, calls |-> <<>>]

shouldDryRun(runOpts, method, url, payload) ==
    LET opts == collectRunOptions(runOpts)
    IN  IF ~isDryRun(opts) THEN [dry |-> FALSE, calls |-> <<>>]
        ELSE [dry |-> TRUE, calls |-> handleDryRun(opts, method, url, payload)]

\* --- requests -----------------------------------------------------------
\* A request of a service method: isNil for a nil pointer, f its string
\* fields, RawBody its RAW_BODY list, json the JSON text it marshals to.
Request(f, rawBody, json) == [isNil |-> FALSE, f |-> f, RawBody |-> rawBody, json |-> json]

NilRequest == [isNil |-> TRUE, f |-> <<>>, RawBody |-> <<>>, json |-> <<>>]

\* comfort.Recipient pointer of a CreateOperationItem
NoRecipient == [isNil |-> TRUE, LastName |-> "", FirstName |-> "", Patronymic |-> "", Phone |-> ""]

Recipient(last, first, patronymic, phone) ==
    [isNil |-> FALSE, LastName |-> last, FirstName |-> first, Patronymic |-> patronymic,
     Phone |-> phone]

CreateOperationItem(amount, recipient) == [Amount |-> amount, Recipient |-> recipient]

\* the value a request is when handed on as `any`: body of DoJSON, payload
\* of the dry-run handler
AsAny(req) ==
    IF req.isNil THEN [kind |-> "nilptr", bs |-> NilBytes, req |-> req]
    ELSE [kind |-> "struct", bs |-> Bytes(req.json), req |-> req]

\* ve.Add for each name whose field is empty, in the order given
RECURSIVE RequireFields(_, _)
RequireFields(req, names) ==
    IF names = <<>> THEN <<>>
    ELSE (IF req.f[Head(names)] = "" THEN <<FieldError(Head(names), "is required")>> ELSE <<>>)
         \o RequireFields(req, Tail(names))

\* if ve.HasErrors() { return ve }; return nil
ValidationResult(fields) == IF Len(fields) > 0 THEN ValidationErrorOf(fields) ELSE NoErr

validateCreateSession(req) ==
    ValidationResult(RequireFields(req, <<"merchant_id", "client_phone">>))

validateSessionRequest(req) ==
    ValidationResult(RequireFields(req, <<"merchant_id", "session_id">>))

validateCheckoutSessionRequest(req) ==
    ValidationResult(RequireFields(req, <<"merchant_id", "session_id">>))

\* the field errors of item i (0-based) of RAW_BODY
CreateOperationItemErrors(op, i) ==
    LET pre == "RAW_BODY[" \o Itoa(i) \o "]"
        r   == op.Recipient
    IN  (IF op.Amount = "" THEN <<FieldError(pre \o ".amount", "is required")>> ELSE <<>>)
        \o (IF r.isNil THEN <<>>
            ELSE (IF r.LastName = ""
                  THEN <<FieldError(pre \o ".recipient.last_name", "is required")>> ELSE <<>>)
              \o (IF r.FirstName = ""
                  THEN <<FieldError(pre \o ".recipient.first_name", "is required")>> ELSE <<>>)
              \o (IF r.Patronymic = ""
                  THEN <<FieldError(pre \o ".recipient.patronymic", "is required")>> ELSE <<>>)
              \o (IF r.Phone = ""
                  THEN <<FieldError(pre \o ".recipient.phone", "is required")>> ELSE <<>>))

RECURSIVE CreateOperationsErrors(_, _)
CreateOperationsErrors(items, i) ==
    IF i >= Len(items) THEN <<>>
    ELSE CreateOperationItemErrors(items[i + 1], i) \o CreateOperationsErrors(items, i + 1)

validateComfortCreateOperations(req) ==
    ValidationResult(CreateOperationsErrors(req.RawBody, 0))

RECURSIVE RefundIDErrors(_, _)
RefundIDErrors(ids, i) ==
    IF i >= Len(ids) THEN <<>>
    ELSE (IF ids[i + 1] = "" THEN <<FieldError("RAW_BODY[" \o Itoa(i) \o "]", "is required")>>
          ELSE <<>>)
         \o RefundIDErrors(ids, i + 1)

validateComfortRefundOperations(req) ==
    IF req.isNil THEN ValidationErrorOf(<<FieldError("request", "is nil")>>)
    ELSE IF Len(req.RawBody) = 0
    THEN ValidationErrorOf(<<FieldError("RAW_BODY", "must contain at least one operation id")>>)
    ELSE ValidationResult(RefundIDErrors(req.RawBody, 0))

validateComfortChangeRecipientData(req) ==
    IF req.isNil THEN ValidationErrorOf(<<FieldError("request", "is nil")>>)
    ELSE ValidationResult(RequireFields(req, <<"guid", "recipient.last_name",
                                               "recipient.first_name", "recipient.patronymic">>))

validateComfortExport(req) ==
    IF req.isNil THEN ValidationErrorOf(<<FieldError("request", "is nil")>>)
    ELSE ValidationResult(
            RequireFields(req, <<"from_date", "to_date", "recepient_email">>)
            \o (IF req.f["format"] \in {"", "CSV", "JSON", "XLSX"} THEN <<>>
                ELSE <<FieldError("format", "must be one of CSV, JSON, XLSX")>>))

\* --- service methods ----------------------------------------------------
\* A service method: which API it belongs to, the HTTP method and endpoint
\* path it uses, how it treats a nil request ("check": the method rejects
\* it, "validator": the validator rejects it, "substitute": an empty request
\* takes its place, "value": the request is passed by value, "none": the
\* method has no request), its validator and whether it decodes an output.
ServiceOp(api, name, method, path, nilRule, validator, out) ==
    [api |-> api, name |-> name, method |-> method, path |-> path, nilRule |-> nilRule,
     validator |-> validator, out |-> out]

AcquiringCreateSession ==
    ServiceOp("acquiring", "CreateSession", "POST", "/v1/session", "check",
              "validateCreateSession", TRUE)

AcquiringVoidSession ==
    ServiceOp("acquiring", "VoidSession", "POST", "/v1/void", "check",
              "validateSessionRequest", FALSE)

CheckoutVoidSession ==
    ServiceOp("checkout", "VoidSession", "POST", "/v1/void", "check",
              "validateCheckoutSessionRequest", FALSE)

ComfortCreateOperations ==
    ServiceOp("comfort", "CreateOperations", "POST", "/v1/operations/create", "value",
              "validateComfortCreateOperations", TRUE)

ComfortRefundOperations ==
    ServiceOp("comfort", "RefundOperations", "POST", "/v1/operations/refund", "validator",
              "validateComfortRefundOperations", TRUE)

ComfortOperationsStatus ==
    ServiceOp("comfort", "OperationsStatus", "POST", "/v1/operations/status", "substitute",
              "", TRUE)

ComfortChangeRecipientData ==
    ServiceOp("comfort", "ChangeRecipientData", "POST", "/v1/operations/change-recipient-data",
              "validator", "validateComfortChangeRecipientData", FALSE)

ComfortBalance ==
    ServiceOp("comfort", "Balance", "GET", "/v1/balance", "none", "", TRUE)

ComfortExportOperations ==
    ServiceOp("comfort", "ExportOperations", "POST", "/v1/export-operations", "validator",
              "validateComfortExport", TRUE)

\* the Do method of a service: method, path, body and out are the caller's
ServiceDo(api, method, path, out) == ServiceOp(api, "Do", method, path, "any", "", out)

Validate(validator, req) ==
    CASE validator = "validateCreateSession" -> validateCreateSession(req)
      [] validator = "validateSessionRequest" -> validateSessionRequest(req)
      [] validator = "validateCheckoutSessionRequest" -> validateCheckoutSessionRequest(req)
      [] validator = "validateComfortCreateOperations" -> validateComfortCreateOperations(req)
      [] validator = "validateComfortRefundOperations" -> validateComfortRefundOperations(req)
      [] validator = "validateComfortChangeRecipientData" ->
            validateComfortChangeRecipientData(req)
      [] validator = "validateComfortExport" -> validateComfortExport(req)
      [] OTHER -> NoErr

BaseURL(c, api) ==
    CASE api = "acquiring" -> c.cfg.acquiringBaseURL
      [] api = "checkout" -> c.cfg.checkoutBaseURL
      [] OTHER -> c.cfg.comfortBaseURL

\* http.NewRequestWithContext accepts the method
ValidMethod(method) == method \in {"GET", "POST"}

EmptyOperationsStatusRequest == Request(<<>>, <<>>, <<123, 125>>)

\* A service method up to its DoJSON call.  arg is the request of a typed
\* method and the body of Do.  The result says whether the method returned
\* (err is then its error) or called DoJSON, which handler calls it made and
\* what it handed to DoJSON.
ServiceMethod(c, op, arg, runOpts) ==
    LET ready   == IF op.api = "comfort" THEN ensureComfortReady(c) ELSE NoErr
        req     == IF op.nilRule = "substitute" /\ arg.isNil
                   THEN EmptyOperationsStatusRequest ELSE arg
        valid   == IF op.nilRule \in {"any", "none"} THEN NoErr
                   ELSE IF op.nilRule = "check" /\ req.isNil
                   THEN ValidationErrorOf(<<FieldError("request", "is nil")>>)
                   ELSE Validate(op.validator, req)
        full    == joinURL(BaseURL(c, op.api), op.path)
        payload == IF op.nilRule = "none" THEN BodyValue("nil", NilBytes)
                   ELSE IF op.nilRule = "any" THEN arg
                   ELSE AsAny(req)
        dr      == shouldDryRun(runOpts, op.method, full.url, payload)
        ret(e, calls) == [returned |-> TRUE, err |-> e, calls |-> calls, url |-> "",
                          body |-> BodyValue("nil", NilBytes)]
    IN  IF c.isNil THEN ret(ClientNilError, <<>>)
        ELSE IF ready # NoErr THEN ret(ready, <<>>)
        ELSE IF valid # NoErr THEN ret(valid, <<>>)
        ELSE IF full.err # NoErr THEN ret(full.err, <<>>)
        ELSE IF dr.dry THEN ret(NoErr, dr.calls)
        ELSE [returned |-> FALSE, err |-> NoErr, calls |-> <<>>, url |-> full.url,
              body |-> payload]

\* the transport a service uses
TransportOf(c, api) == IF api = "comfort" THEN c.comfortHTTP ELSE c.externalHTTP

(***************************************************************************)
(* State.                                                                  *)
(***************************************************************************)
VARIABLES
    pc,             \* where the program is: "new", "construct_failed", "idle",
                    \* "attempt" (loop body about to run doOnce), "select",
                    \* "parked" (suspended in the select), "wake_ctx", "returned"
    client,         \* the httpclient.Client
    call,           \* arguments of the DoJSON call: body, out, urlOK, ctx
    ctxErr,         \* ctx.Err(): "" while the context is live
    attempt,        \* loop variable of DoJSON
    wait,           \* loop variable of DoJSON
    lastErr,        \* loop variable of DoJSON
    last,           \* what the latest doOnce returned and did
    nAttempts,      \* number of doOnce executions of the call
    waits,          \* the durations of the backoff waits that elapsed
    cancelParkedAt, \* nAttempts when the context ended during a parked wait, else 0
    result,         \* what DoJSON returned
    wire,           \* status and body the server answered in the latest attempt
    logged,         \* the messages logged by the latest pass of the DoJSON loop
    world,          \* what lies outside the transport: how many request ids were
                    \* generated, the ids the recorder saw in attempts before the
                    \* latest, whether its hooks fail, and the header map the
                    \* caller handed to New, as it is now and as it was then
    nova,           \* the go_nova.Client: its config and its two transports
    svc,            \* the service-level call in progress and what it did
    procs           \* the DoJSON calls that run concurrently on the transport,
                    \* each with the local variables of its goroutine

vars == <<pc, client, call, ctxErr, attempt, wait, lastErr, last, nAttempts, waits,
          cancelParkedAt, result, wire, logged, world, nova, svc, procs>>

NoOutcome == Outcome(RespNil, NilBytes, NoErr, NoRequest, "none", "", <<>>, <<>>)

NoResult == [resp |-> RespNil, raw |-> NilBytes, err |-> NoErr]

NoWire == [answered |-> FALSE, status |-> 0, body |-> <<>>]

\* logger is the logger the transport writes to (a StdLogger at LevelDebug
\* for a transport built directly), levelSet the argument of the latest
\* SetLogLevel (-1: none yet), written what the logger wrote of the latest
\* pass of the loop
NoWorld == [issued |-> 0, seen |-> {}, hooksFail |-> FALSE, headers |-> NoHeaders,
            given |-> NoHeaders, logger |-> StdLogger(LevelDebug), levelSet |-> -1,
            written |-> <<>>]

NoNova == [isNil |-> TRUE, cfg |-> defaultConfig, hashOpts |-> <<>>,
           externalHTTP |-> ExternalHTTP(defaultConfig),
           comfortHTTP |-> ComfortHTTP(defaultConfig)]

NoSvc == [phase |-> "none", op |-> ServiceOp("", "", "", "", "", "", FALSE),
          arg |-> NilRequest, runOpts |-> <<>>, calls |-> <<>>, err |-> NoErr]

\* the DoJSON calls that run at the same time: two goroutines of the caller,
\* enough for one call to meet every state of another
ProcIDs == {1, 2}

\* One concurrent DoJSON call.  attempt, wait and lastErr are the locals of
\* its loop and ctxErr is ctx.Err() of its context; id is the request id of
\* the doOnce in progress; started and finished count the doOnce executions
\* begun and ended; outcomes are the err and resp each doOnce returned;
\* waits are the backoff waits that elapsed; ctxTaken is the attempt after
\* which the select took its ctx case (0: it never did).
NoProc == [pc |-> "idle", body |-> BodyValue("nil", NilBytes), out |-> FALSE,
           ctx |-> "background", ctxErr |-> "", attempt |-> 0, wait |-> DurZero,
           lastErr |-> NoErr, id |-> 0, started |-> 0, finished |-> 0,
           outcomes |-> <<>>, waits |-> <<>>, ctxTaken |-> 0, err |-> NoErr]

NoProcs == [p \in ProcIDs |-> NoProc]

NoCall == [body |-> BodyValue("nil", NilBytes), out |-> FALSE, urlOK |-> TRUE, ctx |-> "nil"]

Init ==
    /\ pc = "new"
    /\ client = New(NoSigner, 1, Dur300ms, NoHeaders, FALSE, FALSE)
    /\ call = NoCall
    /\ ctxErr = ""
    /\ attempt = 0
    /\ wait = DurZero
    /\ lastErr = NoErr
    /\ last = NoOutcome
    /\ nAttempts = 0
    /\ waits = <<>>
    /\ cancelParkedAt = 0
    /\ result = NoResult
    /\ wire = NoWire
    /\ logged = <<>>
    /\ world = NoWorld
    /\ nova = NoNova
    /\ svc = NoSvc
    /\ procs = NoProcs

callVars == <<call, ctxErr, attempt, wait, lastErr, last, nAttempts, waits, cancelParkedAt,
              result, wire, logged>>

svcVars == <<nova, svc>>

(***************************************************************************)
(* Construction.                                                           *)
(***************************************************************************)
\* The options handed to NewClient: retry is <<>> or the <<attempts, wait>>
\* of WithRetry; key, pub, merchant and base are "absent" or the argument of
\* WithPrivateKey, WithPublicKeyPEM, WithComfortMerchantID and of the three
\* With...BaseURL options; rec is the argument of WithRecorder; hash is the
\* list of hash options in the order given, each <<signer, algorithm>> with
\* signer "all", "external" or "comfort".
ClientOptions(retry, key, pub, merchant, rec, base, hash) ==
    [retry |-> retry, key |-> key, pub |-> pub, merchant |-> merchant, rec |-> rec,
     base |-> base, hash |-> hash, logger |-> [kind |-> "absent", level |-> 0]]

\* the options with WithLogger(logger) among them
AndLogger(o, logger) == [o EXCEPT !.logger = logger]

RECURSIVE applyHashOptions(_, _)
\* the hash options among the options, applied in the order given
applyHashOptions(cfg, opts) ==
    IF opts = <<>> THEN cfg
    ELSE LET o == Head(opts)
             r == IF o[1] = "all" THEN WithSignatureHash(cfg, o[2])
                  ELSE IF o[1] = "external" THEN WithExternalSignatureHash(cfg, o[2])
                  ELSE WithComfortSignatureHash(cfg, o[2])
         IN  applyHashOptions(r.cfg, Tail(opts))

\* the option loop of NewClient: the first failing option ends construction
applyOptions(o) ==
    LET skip(c) == [cfg |-> c, err |-> FALSE]
        r1 == IF o.retry # <<>> THEN WithRetry(defaultConfig, o.retry[1], o.retry[2])
              ELSE skip(defaultConfig)
        r2 == IF o.key # "absent" THEN WithPrivateKey(r1.cfg, o.key) ELSE skip(r1.cfg)
        r3 == IF o.merchant # "absent" THEN WithComfortMerchantID(r2.cfg, o.merchant)
              ELSE skip(r2.cfg)
        r4 == IF o.pub # "absent" THEN WithPublicKeyPEM(r3.cfg, o.pub) ELSE skip(r3.cfg)
        r5 == WithRecorder(r4.cfg, o.rec)
        r6 == IF o.base # "absent" THEN WithAcquiringBaseURL(r5.cfg, o.base) ELSE skip(r5.cfg)
        r7 == IF o.base # "absent" THEN WithCheckoutBaseURL(r6.cfg, o.base) ELSE skip(r6.cfg)
        r8 == IF o.base # "absent" THEN WithComfortBaseURL(r7.cfg, o.base) ELSE skip(r7.cfg)
        r9 == IF o.logger.kind # "absent" THEN WithLogger(r8.cfg, o.logger) ELSE skip(r8.cfg)
    IN  [cfg |-> applyHashOptions(r9.cfg, o.hash),
         err |-> r1.err \/ r2.err \/ r3.err \/ r4.err \/ r5.err \/ r6.err \/ r7.err \/ r8.err]

\* NewClient(opts...): the client with its two transports; api names the
\* transport a DoJSON call made next goes to
NewClient(o, api) ==
    /\ pc = "new"
    /\ LET r == applyOptions(o)
       IN  IF r.err
           THEN /\ pc' = "construct_failed"
                /\ UNCHANGED <<client, nova, world>>
           ELSE /\ pc' = "idle"
                /\ nova' = [isNil |-> FALSE, cfg |-> r.cfg, hashOpts |-> o.hash,
                            externalHTTP |-> ExternalHTTP(r.cfg),
                            comfortHTTP |-> ComfortHTTP(r.cfg)]
                /\ client' = IF api = "external" THEN ExternalHTTP(r.cfg) ELSE ComfortHTTP(r.cfg)
                /\ world' = [world EXCEPT !.logger = r.cfg.logger]
    /\ UNCHANGED <<callVars, svc, procs>>

\* Client.SetLogLevel(level), between calls: the level goes to the logger
\* when the logger has a SetLevel method
SetLogLevel(level) ==
    /\ pc = "idle"
    /\ ~nova.isNil
    /\ world' = [world EXCEPT !.logger = IF @.kind = "std" THEN SetLevel(@, level) ELSE @,
                              !.levelSet = level]
    /\ UNCHANGED <<pc, client, callVars, nova, svc, procs>>

\* httpclient.New called directly; the caller keeps the header map it passed
NewTransport(signer, a, w, headers, rec, logBodies) ==
    /\ pc = "new"
    /\ pc' = "idle"
    /\ client' = New(signer, a, w, headers, rec, logBodies)
    /\ world' = [world EXCEPT !.headers = headers, !.given = headers]
    /\ UNCHANGED <<callVars, svcVars, procs>>

(***************************************************************************)
(* Client.DoJSON.                                                          *)
(***************************************************************************)
\* a loop that hands back the response and its body and drops the error
Return_ErrorDropped(resp, raw, err) ==
    /\ pc' = "returned"
    /\ result' = [resp |-> resp, raw |-> raw, err |-> NoErr]

\* a loop that hands back the error without the response and its body
Return_ErrorAlone(resp, raw, err) ==
    /\ pc' = "returned"
    /\ result' = [resp |-> RespNil, raw |-> NilBytes, err |-> err]

Return(resp, raw, err) ==
    /\ pc' = "returned"
    /\ result' = [resp |-> resp, raw |-> raw, err |-> err]

\* a backoff wait that has no timer case
SelectCases_CtxOnly == {"ctx"}

\* a backoff wait that sleeps without listening to the context
SelectCases_TimerOnly == {"timer"}

\* the select of the backoff wait listens on these
SelectCases == {"ctx", "timer"}

\* the final-attempt test off by one
IsFinalAttempt_OffByOne(c, n) == n + 1 = c.retryAttempts

\* the call ends its loop on this attempt even if the failure is retryable
IsFinalAttempt(c, n) == n = c.retryAttempts

\* a loop that gives up only on its final attempt, whatever the attempt did
LoopDecision_UntilFinal(c, n, o) ==
    IF IsFinalAttempt(c, n) THEN "return" ELSE "wait"

\* what the loop body does with the outcome of doOnce: return it, or go on
\* to the backoff wait
LoopDecision(c, n, o) ==
    IF o.err = NoErr THEN "return"
    ELSE IF ~isRetryable(o.err, o.resp) \/ IsFinalAttempt(c, n) THEN "return"
    ELSE "wait"

Cancellable == call.ctx = "cancellable"

\* entry: a nil ctx becomes context.Background(); loop variables are set
BeginDoJSON(c, body, out, urlOK, ctx) ==
    /\ call' = [body |-> body, out |-> out, urlOK |-> urlOK,
                ctx |-> IF ctx = "nil" THEN "background" ELSE ctx]
    /\ attempt' = 1
    /\ wait' = c.retryWait
    /\ lastErr' = NoErr
    /\ IF 1 <= c.retryAttempts
       THEN pc' = "attempt" /\ UNCHANGED result
       ELSE Return(RespNil, NilBytes, NoErr)
    /\ UNCHANGED <<ctxErr, last, nAttempts, waits, cancelParkedAt, wire, logged>>

\* a DoJSON call made on the transport directly
StartCall(body, out, urlOK, ctx) ==
    /\ pc = "idle"
    /\ BeginDoJSON(client, body, out, urlOK, ctx)
    /\ UNCHANGED <<client, world, svcVars, procs>>

\* the request ids the events carry
EventIDs(events) == {events[i].id : i \in DOMAIN events}

\* a generator that hands out the same identifier every time
nextRequestID_Fixed(issued) == 1

\* uuid.NewString(): an identifier no earlier call returned, named by its
\* place in the order of generation
nextRequestID(issued) == issued + 1

\* the messages one pass of the loop body logs: the request line, what doOnce
\* logged, and the line for what the loop does with the outcome
LoopLogs(c, n, w, o) ==
    LET f    == [NoLogFields EXCEPT !.attempt = n, !.of = c.retryAttempts]
        raw  == logBody(SigInput(o.raw), c.logBodies)
        head == <<LogMsg("debug", "request", f)>> \o o.logs
    IN  IF o.err = NoErr
        THEN head \o (IF ~o.resp.isNil
                      THEN <<LogMsg("debug", "response",
                                    [NoLogFields EXCEPT !.status = o.resp.status, !.body = raw])>>
                      ELSE <<>>)
        ELSE IF LoopDecision(c, n, o) = "return"
        THEN head \o <<LogMsg("error", "request failed",
                              IF ~o.resp.isNil
                              THEN [NoLogFields EXCEPT !.status = o.resp.status,
                                                       !.err = ErrorText(o.err), !.body = raw]
                              ELSE [NoLogFields EXCEPT !.err = ErrorText(o.err)])>>
        ELSE head \o <<LogMsg("warn", "request retry",
                              [NoLogFields EXCEPT !.attempt = n, !.wait = w,
                                                  !.err = ErrorText(o.err)])>>

\* The loop body after doOnce has returned o for the attempt with request
\* id id, answered by net: the log lines, the bookkeeping and the decision.
AfterDoOnce(net, id, o) ==
    /\ last' = o
    /\ logged' = LoopLogs(client, attempt, wait, o)
    /\ world' = [world EXCEPT !.issued = id, !.seen = @ \cup EventIDs(last.events),
                              !.written = Written(world.logger,
                                                  LoopLogs(client, attempt, wait, o))]
    /\ wire' = IF o.req.sent /\ net.kind = "response"
               THEN [answered |-> TRUE, status |-> net.status, body |-> net.body]
               ELSE NoWire
    /\ nAttempts' = nAttempts + 1
    /\ ctxErr' = IF o.req.sent /\ net.cancel # "" THEN net.cancel ELSE ctxErr
    /\ lastErr' = IF o.err = NoErr THEN lastErr ELSE o.err
    /\ IF LoopDecision(client, attempt, o) = "return"
       THEN Return(o.resp, o.raw, o.err)
       ELSE pc' = "select" /\ UNCHANGED result

\* One pass of the loop body up to the select: doOnce and its
\* classification.  atSign and atSend are the content of the caller's body
\* buffer when the attempt signs and when it sends.
RunAttempt(atSign, atSend) ==
    \E net \in (IF DispatchAllowed(ctxErr) THEN NetChoices(Cancellable)
                ELSE {NetChoice("doerr", 0, <<>>, NoErr, "")}),
       order \in MapOrders(HeadersNow(client, world.headers)) :
         AfterDoOnce(net, nextRequestID(world.issued),
                     doOnce(client, ctxErr, call.body, call.out, call.urlOK, net, order,
                            Memory(nextRequestID(world.issued), world.hooksFail,
                                   atSign, atSend, world.headers)))

\* an attempt during which the caller leaves its buffer alone
Attempt ==
    /\ pc = "attempt"
    /\ RunAttempt(call.body.bs.b, call.body.bs.b)
    /\ UNCHANGED <<client, call, attempt, wait, waits, cancelParkedAt, svcVars, procs>>

\* case <-time.After(wait): wait *= 2, then attempt++ and the loop test
TimerBranch ==
    /\ waits' = Append(waits, wait)
    /\ wait' = DurDouble(wait)
    /\ attempt' = attempt + 1
    /\ IF attempt + 1 <= client.retryAttempts
       THEN pc' = "attempt" /\ UNCHANGED result
       ELSE Return(RespNil, NilBytes, lastErr)
    /\ UNCHANGED <<client, call, ctxErr, lastErr, last, nAttempts, cancelParkedAt, wire,
                   logged, world, svcVars, procs>>

\* case <-ctx.Done(): return resp, raw, ctx.Err()
CtxBranch ==
    /\ Return(last.resp, last.raw, CtxErrValue(ctxErr))
    /\ UNCHANGED <<client, call, ctxErr, attempt, wait, lastErr, last, nAttempts, waits,
                   cancelParkedAt, wire, logged, world, svcVars, procs>>

\* the select finds the context already ended
SelectCtxReady ==
    /\ pc = "select"
    /\ "ctx" \in SelectCases
    /\ ctxErr # ""
    /\ CtxBranch

\* the select finds the timer already expired (always so for a wait <= 0);
\* when the context has ended too, either case may be taken
SelectTimerReady ==
    /\ pc = "select"
    /\ "timer" \in SelectCases
    /\ TimerBranch

\* no case is ready: the call is suspended
SelectPark ==
    /\ pc = "select"
    /\ ~("ctx" \in SelectCases /\ ctxErr # "")
    /\ DurPositive(wait)
    /\ pc' = "parked"
    /\ UNCHANGED <<client, callVars, world, svcVars, procs>>

\* the timer expires while the call is suspended
TimerFires ==
    /\ pc = "parked"
    /\ "timer" \in SelectCases
    /\ TimerBranch

\* the call, woken by the end of its context, returns
WakeCtx ==
    /\ pc = "wake_ctx"
    /\ CtxBranch

\* The caller cancels the context, or its deadline passes, while the call is
\* between steps.  A call suspended in the select is woken on the ctx case.
Cancel(e) ==
    /\ Cancellable
    /\ ctxErr = ""
    /\ pc \in {"attempt", "select", "parked"}
    /\ ctxErr' = e
    /\ pc' = IF pc = "parked" /\ "ctx" \in SelectCases THEN "wake_ctx" ELSE pc
    /\ cancelParkedAt' = IF pc = "parked" THEN nAttempts ELSE cancelParkedAt
    /\ UNCHANGED <<client, call, attempt, wait, lastErr, last, nAttempts, waits, result,
                   wire, logged, world, svcVars, procs>>

Next ==
    \/ \E useRetry \in BOOLEAN, r \in RetryArgs, keyOpt \in {"absent"} \cup KeyArgs,
          merchantOpt \in {"absent", "42"}, api \in {"external", "comfort"} :
            NewClient(ClientOptions(IF useRetry THEN r ELSE <<>>, keyOpt, "absent",
                                    merchantOpt, FALSE, "absent", <<>>), api)
    \/ \E t \in TransportArgs, r \in RetryArgs :
            NewTransport(t[1], r[1], r[2], t[2], t[3], t[4])
    \/ \E a \in CallArgs : StartCall(a[1], a[2], a[3], a[4])
    \/ Attempt
    \/ SelectCtxReady
    \/ SelectTimerReady
    \/ SelectPark
    \/ TimerFires
    \/ WakeCtx
    \/ \E e \in CtxErrs : Cancel(e)

Spec == Init /\ [][Next]_vars

\* The transport under a scheduler that lets the goroutine of the call run
\* and a clock that advances: a select with a ready case takes one, a timer
\* that was set expires, and a call woken by its context runs on.  Nothing
\* obliges the caller to start a call or to cancel one, and nothing obliges
\* the network to let an attempt return.
FairSpec ==
    /\ Init
    /\ [][Next]_vars
    /\ WF_vars(SelectCtxReady \/ SelectTimerReady \/ SelectPark)
    /\ WF_vars(TimerFires)
    /\ WF_vars(WakeCtx)

(***************************************************************************)
(* The transport and its caller: the caller keeps the header map and the   *)
(* body buffer it handed over and may write to them, the recorder may      *)
(* start to fail, and a transport serves one call after another.           *)
(***************************************************************************)
\* the largest number of request ids generated before a further call begins
MaxIssued == 3

OverridingHeaders == ("accept" :> "text/plain") @@ ("content-type" :> "text/xml")

TraceHeaders == ("X-Trace" :> "t1") @@ ("" :> "v")

\* <<signer, default headers, recorder, logBodies>>
CallerTransportArgs ==
    {<<NoSigner, OverridingHeaders, TRUE, FALSE>>,
     <<RSASigner("key1", HashSHA256), TraceHeaders, TRUE, FALSE>>,
     <<RSASigner("key1", HashSHA1), ("X-Empty" :> ""), FALSE, TRUE>>}

\* <<body, out, urlOK, ctx>>
CallerCallArgs ==
    {<<BodyValue("bytes", Bytes(<<123, 125>>)), TRUE, TRUE, "cancellable">>,
     <<BodyValue("string", Bytes(<<97, ChNL>>)), FALSE, TRUE, "cancellable">>,
     <<BodyValue("nil", NilBytes), TRUE, TRUE, "nil">>,
     <<BodyValue("unsupported", NilBytes), FALSE, TRUE, "nil">>}

\* what the caller may do to the map: change an entry, delete all, add one
HeaderMutations(m) ==
    {NoHeaders, ("X-Added" :> "a") @@ m}
    \cup (IF "X-Trace" \in DOMAIN m THEN {[m EXCEPT !["X-Trace"] = "t2"]} ELSE {})

\* the caller writes to the header map it handed to New
MutateHeaders(m) ==
    /\ pc \in {"idle", "select"}
    /\ world.headers = world.given
    /\ m # world.headers
    /\ world' = [world EXCEPT !.headers = m]
    /\ UNCHANGED <<pc, client, callVars, svcVars, procs>>

\* what the caller overwrites its body buffer with
Overwritten(b) == [i \in DOMAIN b |-> 120]

IsBuffer(body) == body.kind = "bytes" /\ Len(body.bs.b) > 0

\* the caller overwrites its body buffer between two attempts
MutateBody ==
    /\ pc = "select"
    /\ IsBuffer(call.body)
    /\ call.body.bs.b # Overwritten(call.body.bs.b)
    /\ call' = [call EXCEPT !.body.bs = Bytes(Overwritten(call.body.bs.b))]
    /\ UNCHANGED <<pc, client, ctxErr, attempt, wait, lastErr, last, nAttempts, waits,
                   cancelParkedAt, result, wire, logged, world, svcVars, procs>>

\* an attempt during which the caller overwrites its body buffer, after the
\* attempt has prepared its body: before it signs, or between signing and
\* sending
AttemptDuringWrite(beforeSign) ==
    /\ pc = "attempt"
    /\ IsBuffer(call.body)
    /\ call.body.bs.b # Overwritten(call.body.bs.b)
    /\ RunAttempt(IF beforeSign THEN Overwritten(call.body.bs.b) ELSE call.body.bs.b,
                  Overwritten(call.body.bs.b))
    /\ call' = [call EXCEPT !.body.bs = Bytes(Overwritten(call.body.bs.b))]
    /\ UNCHANGED <<client, attempt, wait, waits, cancelParkedAt, svcVars, procs>>

\* from now on the recorder's hooks return errors
HooksBreak ==
    /\ pc = "idle"
    /\ client.recorder
    /\ ~world.hooksFail
    /\ world' = [world EXCEPT !.hooksFail = TRUE]
    /\ UNCHANGED <<pc, client, callVars, svcVars, procs>>

\* the call has returned and the caller is about to make another one
NextCall ==
    /\ pc = "returned"
    /\ world.issued < MaxIssued
    /\ pc' = "idle"
    /\ call' = NoCall
    /\ ctxErr' = ""
    /\ attempt' = 0
    /\ wait' = DurZero
    /\ lastErr' = NoErr
    /\ last' = NoOutcome
    /\ nAttempts' = 0
    /\ waits' = <<>>
    /\ cancelParkedAt' = 0
    /\ result' = NoResult
    /\ wire' = NoWire
    /\ logged' = <<>>
    /\ world' = [world EXCEPT !.seen = @ \cup EventIDs(last.events), !.written = <<>>]
    /\ UNCHANGED <<client, svcVars, procs>>

CallerNext ==
    \/ \E t \in CallerTransportArgs : NewTransport(t[1], 2, DurOneNs, t[2], t[3], t[4])
    \/ \E a \in CallerCallArgs : StartCall(a[1], a[2], a[3], a[4])
    \/ \E m \in HeaderMutations(world.headers) : MutateHeaders(m)
    \/ MutateBody
    \/ \E beforeSign \in BOOLEAN : AttemptDuringWrite(beforeSign)
    \/ HooksBreak
    \/ NextCall
    \/ Attempt
    \/ SelectCtxReady
    \/ SelectTimerReady
    \/ SelectPark
    \/ TimerFires
    \/ WakeCtx
    \/ \E e \in CtxErrs : Cancel(e)

CallerSpec == Init /\ [][CallerNext]_vars

(***************************************************************************)
(* Service-level calls on the SDK client.                                  *)
(***************************************************************************)
\* option lists handed to NewClient
ServiceClientArgs ==
    {ClientOptions(<<>>, "absent", "absent", "absent", FALSE, "absent", <<>>),
     ClientOptions(<<>>, "key1", "pub1", "42", TRUE, "absent", <<>>),
     ClientOptions(<<2, DurOneNs>>, "key1", "absent", " 42 ", FALSE, "http://127.0.0.1:8080", <<>>),
     ClientOptions(<<>>, "key1", "absent", "absent", TRUE, "absent", <<>>),
     ClientOptions(<<>>, "key1", "absent", "42", FALSE, ":bad", <<>>),
     ClientOptions(<<>>, "absent", "", " ", FALSE, "absent", <<>>),
     ClientOptions(<<>>, "absent", "absent", "absent", FALSE, "", <<>>),
     ClientOptions(<<>>, "key1", "pub1", "42", FALSE, "absent",
                   <<<<"comfort", HashSHA256>>, <<"external", HashSHA1>>>>),
     ClientOptions(<<>>, "key1", "pub1", "42", FALSE, "absent",
                   <<<<"external", HashSHA1>>, <<"all", HashSHA256>>, <<"comfort", HashSHA1>>>>),
     ClientOptions(<<>>, "key1", "pub1", "42", FALSE, "absent", <<<<"external", "MD5">>>>)}

\* requests
GoodCreateSession ==
    Request(("merchant_id" :> "1") @@ ("client_phone" :> "+380982850620"), <<>>, <<123, 49, 125>>)

GoodSession ==
    Request(("merchant_id" :> "1") @@ ("session_id" :> "s1"), <<>>, <<123, 50, 125>>)

GoodRecipient == Recipient("L", "F", "P", "+380")

GoodChangeRecipient ==
    Request(("guid" :> "g") @@ ("recipient.last_name" :> "L") @@ ("recipient.first_name" :> "F")
            @@ ("recipient.patronymic" :> "P"), <<>>, <<123, 51, 125>>)

\* f["format"] = "" is a nil Format pointer
GoodExport ==
    Request(("from_date" :> "2026-01-01") @@ ("to_date" :> "2026-01-31")
            @@ ("recepient_email" :> "a@b.c") @@ ("format" :> ""), <<>>, <<123, 52, 125>>)

CreateOperationsOf(items) ==
    Request(<<>>, items, IF items = <<>> THEN <<123, 125>> ELSE <<123, 53, 125>>)

RefundOperationsOf(ids) == Request(<<>>, ids, <<123, 54, 125>>)

\* <<method, request>> pairs of the typed service methods
TypedCallArgs ==
    {<<AcquiringCreateSession, r>> :
        r \in {NilRequest, GoodCreateSession,
               [GoodCreateSession EXCEPT !.f["client_phone"] = ""],
               [GoodCreateSession EXCEPT !.f["merchant_id"] = "", !.f["client_phone"] = ""]}}
    \cup {<<AcquiringVoidSession, r>> :
        r \in {GoodSession, [GoodSession EXCEPT !.f["session_id"] = ""]}}
    \cup {<<CheckoutVoidSession, r>> : r \in {NilRequest, GoodSession}}
    \cup {<<ComfortCreateOperations, CreateOperationsOf(items)>> :
        items \in {<<>>,
                   <<CreateOperationItem("", NoRecipient)>>,
                   <<CreateOperationItem("10", GoodRecipient)>>,
                   <<CreateOperationItem("10", NoRecipient), CreateOperationItem("", NoRecipient)>>,
                   <<CreateOperationItem("10", [GoodRecipient EXCEPT !.Phone = ""])>>}}
    \cup {<<ComfortRefundOperations, r>> :
        r \in {NilRequest, RefundOperationsOf(<<>>), RefundOperationsOf(<<"id1">>),
               RefundOperationsOf(<<"id1", "">>)}}
    \cup {<<ComfortOperationsStatus, r>> :
        r \in {NilRequest, Request(("guid" :> "g"), <<>>, <<123, 55, 125>>)}}
    \cup {<<ComfortChangeRecipientData, r>> :
        r \in {NilRequest, GoodChangeRecipient, [GoodChangeRecipient EXCEPT !.f["guid"] = ""]}}
    \cup {<<ComfortBalance, NilRequest>>}
    \cup {<<ComfortExportOperations, r>> :
        r \in {NilRequest, GoodExport, [GoodExport EXCEPT !.f["format"] = "PDF"]}}

\* <<method, body>> pairs of the Do methods
DoCallArgs ==
    {<<ServiceDo("acquiring", "GET", "/v1/x", TRUE), BodyValue("nil", NilBytes)>>,
     <<ServiceDo("acquiring", "BAD METHOD", "/v1/x", FALSE), BodyValue("nil", NilBytes)>>,
     <<ServiceDo("checkout", "POST", "/v1/x", FALSE), BodyValue("unsupported", NilBytes)>>,
     <<ServiceDo("comfort", "POST", "/v1/x", TRUE), BodyValue("bytes", Bytes(<<123, 125>>))>>}

\* run option lists
RunOptionArgs ==
    {<<>>,
     <<DryRun("h1")>>,
     <<DryRun("h1"), DryRun("h2")>>,
     <<DryRun("h2"), NilRunOption>>,
     <<DryRun("h1"), DryRun("")>>,
     <<DryRun("nil")>>,
     <<NilRunOption>>}

\* a service method is called: it returns before DoJSON or calls DoJSON on
\* the transport of its API
ServiceCall(op, arg, runOpts) ==
    /\ pc = "idle"
    /\ LET m == ServiceMethod(nova, op, arg, runOpts)
       IN  IF m.returned
           THEN /\ pc' = "svc_returned"
                /\ svc' = [phase |-> "returned", op |-> op, arg |-> arg, runOpts |-> runOpts,
                           calls |-> m.calls, err |-> m.err]
                /\ UNCHANGED <<client, callVars>>
           ELSE /\ svc' = [phase |-> "dojson", op |-> op, arg |-> arg, runOpts |-> runOpts,
                           calls |-> <<>>, err |-> NoErr]
                /\ client' = TransportOf(nova, op.api)
                /\ BeginDoJSON(TransportOf(nova, op.api), m.body, op.out,
                               ValidMethod(op.method), "cancellable")
    /\ UNCHANGED <<nova, world, procs>>

\* DoJSON has returned to the service method, which returns
\* wrapAPIError(err)
ServiceReturn ==
    /\ pc = "returned"
    /\ svc.phase = "dojson"
    /\ pc' = "svc_returned"
    /\ svc' = [svc EXCEPT !.phase = "returned", !.err = wrapAPIError(result.err)]
    /\ UNCHANGED <<client, callVars, world, nova, procs>>

\* signatures made by Sign: of "{}" (four signature bytes, "==" at the end
\* of the string), of no bytes (two bytes, "="), of "{" (three bytes, no
\* padding)
SignedArgs ==
    {Sign(RSASigner("key1", HashSHA256), JSONObject).sig,
     Sign(RSASigner("key1", HashSHA1), JSONObject).sig,
     Sign(RSASigner("key2", HashSHA256), JSONObject).sig,
     Sign(RSASigner("key1", HashSHA1), <<>>).sig,
     Sign(RSASigner("key1", HashSHA256), <<123>>).sig}

\* whitespace before and after a string
WithSpace(str) == <<32, 10, 9>> \o str \o <<13, 10>>

\* the string without its '=' characters
StripPadding(str) == SelectSeq(str, LAMBDA c : c # B64Pad)

\* the string broken into lines after its sixth and seventh character
LineWrapped(str) == SubSeq(str, 1, 6) \o <<13, 10>> \o SubSeq(str, 7, 7) \o <<10>>
                    \o SubSeq(str, 8, Len(str))

\* signature strings handed to Verify: what Sign returned, the same with
\* whitespace around it, without padding, with one '=' of two removed, in
\* lines; "forged", "not-base64", "!", "", " \t", "===="
VerifyArgs ==
    {SigText(x) : x \in SignedArgs}
    \cup {WithSpace(SigText(x)) : x \in SignedArgs}
    \cup {StripPadding(SigText(x)) : x \in SignedArgs}
    \cup {WithSpace(StripPadding(SigText(Sign(RSASigner("key1", HashSHA256), JSONObject).sig))),
          SubSeq(SigText(Sign(RSASigner("key1", HashSHA256), JSONObject).sig), 1, 7),
          LineWrapped(SigText(Sign(RSASigner("key1", HashSHA256), JSONObject).sig)),
          <<102, 111, 114, 103, 101, 100>>,
          <<110, 111, 116, 45, 98, 97, 115, 101, 54, 52>>,
          <<33>>, <<>>, <<32, 9>>, <<61, 61, 61, 61>>}

\* bodies handed to Verify: "{}", "{}" with its last byte changed, "{", no
\* bytes
VerifyBodies == {JSONObject, <<123, 126>>, <<123>>, <<>>}

\* Client.Verify (api "external") and Client.VerifyComfort (api "comfort")
VerifyCall(api, body, x) ==
    /\ pc = "idle"
    /\ pc' = "verified"
    /\ svc' = [NoSvc EXCEPT !.phase = "verified",
                            !.op = ServiceOp(api, "Verify", "", "", "", "", FALSE),
                            !.calls = <<[body |-> body, xSign |-> x]>>,
                            !.err = Verify(IF api = "comfort" THEN nova.cfg.comfortSigner
                                           ELSE nova.cfg.externalSigner, body, x)]
    /\ UNCHANGED <<client, callVars, world, nova, procs>>

ServiceNext ==
    \/ \E o \in ServiceClientArgs : NewClient(o, "external")
    \/ \E a \in TypedCallArgs \cup DoCallArgs, ro \in RunOptionArgs : ServiceCall(a[1], a[2], ro)
    \/ ServiceReturn
    \/ \E api \in {"external", "comfort"}, body \in VerifyBodies, x \in VerifyArgs :
            VerifyCall(api, body, x)
    \/ Attempt
    \/ SelectCtxReady
    \/ SelectTimerReady
    \/ SelectPark
    \/ TimerFires
    \/ WakeCtx
    \/ \E e \in CtxErrs : Cancel(e)

ServiceSpec == Init /\ [][ServiceNext]_vars

(***************************************************************************)
(* Service calls in a row on a client whose log level is set between       *)
(* them.                                                                   *)
(***************************************************************************)
\* clients with the default logger (a StdLogger at LevelInfo), with
\* WithLogger(nil) and with a StdLogger at LevelDebug
LoggerClientArgs ==
    {ClientOptions(<<>>, "key1", "absent", "42", FALSE, "absent", <<>>),
     AndLogger(ClientOptions(<<>>, "key1", "absent", "42", FALSE, "absent", <<>>), NilLogger),
     AndLogger(ClientOptions(<<2, DurOneNs>>, "key1", "absent", "42", TRUE, "absent", <<>>),
               StdLogger(LevelDebug))}

LoggerCallArgs ==
    {<<AcquiringCreateSession, GoodCreateSession>>, <<ComfortBalance, NilRequest>>}

\* the service call has returned and the caller is about to make another one
NextServiceCall ==
    /\ pc = "svc_returned"
    /\ world.issued < MaxIssued
    /\ pc' = "idle"
    /\ svc' = NoSvc
    /\ call' = NoCall
    /\ ctxErr' = ""
    /\ attempt' = 0
    /\ wait' = DurZero
    /\ lastErr' = NoErr
    /\ last' = NoOutcome
    /\ nAttempts' = 0
    /\ waits' = <<>>
    /\ cancelParkedAt' = 0
    /\ result' = NoResult
    /\ wire' = NoWire
    /\ logged' = <<>>
    /\ world' = [world EXCEPT !.seen = @ \cup EventIDs(last.events), !.written = <<>>]
    /\ UNCHANGED <<client, nova, procs>>

LoggerNext ==
    \/ \E o \in LoggerClientArgs : NewClient(o, "external")
    \/ \E level \in {LevelDebug, LevelInfo, LevelWarn, LevelError, LevelOff} :
            SetLogLevel(level)
    \/ \E a \in LoggerCallArgs : ServiceCall(a[1], a[2], <<>>)
    \/ ServiceReturn
    \/ NextServiceCall
    \/ Attempt
    \/ SelectCtxReady
    \/ SelectTimerReady
    \/ SelectPark
    \/ TimerFires
    \/ WakeCtx
    \/ \E e \in CtxErrs : Cancel(e)

LoggerSpec == Init /\ [][LoggerNext]_vars

(***************************************************************************)
(* Several DoJSON calls at once on one transport.  Each call is a          *)
(* goroutine of the caller; an attempt is in progress from the entry of    *)
(* doOnce to its return, and the steps of the calls interleave.            *)
(***************************************************************************)
\* <<retryAttempts, retryWait>> of the transport the calls share
ConcurrentRetryArgs == {<<3, DurOneNs>>, <<2, Dur300ms>>}

\* <<body, out, ctx>>
ConcurrentCallArgs ==
    {<<BodyValue("bytes", Bytes(JSONObject)), TRUE, "cancellable">>,
     <<BodyValue("nil", NilBytes), FALSE, "nil">>}

\* what the network does with an attempt of one of the calls
ConcurrentNets ==
    {NetChoice("response", 200, JSONObject, NoErr, ""),
     NetChoice("response", 500, <<>>, NoErr, ""),
     NetChoice("response", 404, <<>>, NoErr, ""),
     NetChoice("doerr", 0, <<>>, URLError(OpError), "")}

\* call p enters DoJSON: its loop variables are set
ProcStart(p, body, out, ctx) ==
    /\ pc = "idle"
    /\ procs[p].pc = "idle"
    /\ procs' = [procs EXCEPT ![p] =
                    [@ EXCEPT !.pc = IF 1 <= client.retryAttempts THEN "attempt" ELSE "returned",
                              !.body = body, !.out = out,
                              !.ctx = IF ctx = "nil" THEN "background" ELSE ctx,
                              !.attempt = 1, !.wait = client.retryWait]]
    /\ UNCHANGED <<pc, client, callVars, world, svcVars>>

\* a loop that starts a further attempt while one is in flight
MayBeginAttempt_Speculative(q) == q.pc \in {"attempt", "doOnce"}

\* the loop of the call stands before the call of doOnce
MayBeginAttempt(q) == q.pc = "attempt"

\* call p enters doOnce, which draws its request id
ProcBeginAttempt(p) ==
    /\ pc = "idle"
    /\ MayBeginAttempt(procs[p])
    /\ procs' = [procs EXCEPT ![p] = [@ EXCEPT !.pc = "doOnce", !.started = @ + 1,
                                               !.id = nextRequestID(world.issued)]]
    /\ world' = [world EXCEPT !.issued = nextRequestID(world.issued)]
    /\ UNCHANGED <<pc, client, callVars, svcVars>>

\* the loop body of call p after its doOnce has returned o
AfterProcDoOnce(p, net, o) ==
    procs' = [procs EXCEPT ![p] =
                 [@ EXCEPT !.finished = @ + 1,
                           !.id = 0,
                           !.outcomes = Append(@, [err |-> o.err, resp |-> o.resp]),
                           !.ctxErr = IF o.req.sent /\ net.cancel # "" THEN net.cancel ELSE @,
                           !.lastErr = IF o.err = NoErr THEN @ ELSE o.err,
                           !.err = o.err,
                           !.pc = IF LoopDecision(client, procs[p].attempt, o) = "return"
                                  THEN "returned" ELSE "select"]]

\* the doOnce of call p returns
ProcEndAttempt(p) ==
    /\ pc = "idle"
    /\ procs[p].pc = "doOnce"
    /\ \E net \in (IF DispatchAllowed(procs[p].ctxErr) THEN ConcurrentNets
                   ELSE {NetChoice("doerr", 0, <<>>, NoErr, "")}),
          order \in MapOrders(HeadersNow(client, world.headers)) :
            AfterProcDoOnce(p, net,
                            doOnce(client, procs[p].ctxErr, procs[p].body, procs[p].out, TRUE,
                                   net, order,
                                   Memory(procs[p].id, world.hooksFail, procs[p].body.bs.b,
                                          procs[p].body.bs.b, world.headers)))
    /\ UNCHANGED <<pc, client, callVars, world, svcVars>>

\* a loop that takes its wait from the call that began first
LoopWait_Shared(ps, p) == ps[1].wait

\* the wait variable the loop of call p reads
LoopWait(ps, p) == ps[p].wait

\* case <-time.After(wait) of call p
ProcTimer(p) ==
    /\ pc = "idle"
    /\ procs[p].pc = "select"
    /\ "timer" \in SelectCases
    /\ procs' = [procs EXCEPT ![p] =
                    [@ EXCEPT !.waits = Append(@, LoopWait(procs, p)),
                              !.wait = DurDouble(LoopWait(procs, p)),
                              !.attempt = @ + 1,
                              !.err = procs[p].lastErr,
                              !.pc = IF procs[p].attempt + 1 <= client.retryAttempts
                                     THEN "attempt" ELSE "returned"]]
    /\ UNCHANGED <<pc, client, callVars, world, svcVars>>

\* case <-ctx.Done() of call p
ProcCtx(p) ==
    /\ pc = "idle"
    /\ procs[p].pc = "select"
    /\ "ctx" \in SelectCases
    /\ procs[p].ctxErr # ""
    /\ procs' = [procs EXCEPT ![p] = [@ EXCEPT !.pc = "returned",
                                               !.err = CtxErrValue(procs[p].ctxErr),
                                               !.ctxTaken = procs[p].attempt]]
    /\ UNCHANGED <<pc, client, callVars, world, svcVars>>

\* the context of call p ends
ProcCancel(p, e) ==
    /\ pc = "idle"
    /\ procs[p].ctx = "cancellable"
    /\ procs[p].ctxErr = ""
    /\ procs[p].pc \in {"attempt", "doOnce", "select"}
    /\ procs' = [procs EXCEPT ![p] = [@ EXCEPT !.ctxErr = e]]
    /\ UNCHANGED <<pc, client, callVars, world, svcVars>>

ConcurrentNext ==
    \/ \E r \in ConcurrentRetryArgs, rec \in BOOLEAN :
            NewTransport(RSASigner("key1", HashSHA256), r[1], r[2], NoHeaders, rec, FALSE)
    \/ \E p \in ProcIDs, a \in ConcurrentCallArgs : ProcStart(p, a[1], a[2], a[3])
    \/ \E p \in ProcIDs : ProcBeginAttempt(p)
    \/ \E p \in ProcIDs : ProcEndAttempt(p)
    \/ \E p \in ProcIDs : ProcTimer(p)
    \/ \E p \in ProcIDs : ProcCtx(p)
    \/ \E p \in ProcIDs, e \in CtxErrs : ProcCancel(p, e)

ConcurrentSpec == Init /\ [][ConcurrentNext]_vars

(***************************************************************************)
(* Helpers of the properties.                                              *)
(***************************************************************************)
\* natural numbers of any size as limb sequences, least significant first
RECURSIVE NatDouble(_, _)
NatDouble(n, carry) ==
    IF n = <<>> THEN (IF carry = 0 THEN <<>> ELSE <<carry>>)
    ELSE LET c == 2 * Head(n) + carry
         IN  <<c % LimbBase>> \o NatDouble(Tail(n), c \div LimbBase)

RECURSIVE NatTimesPow2(_, _)
NatTimesPow2(n, e) == IF e = 0 THEN n ELSE NatTimesPow2(NatDouble(n, 0), e - 1)

RECURSIVE NatNorm(_)
NatNorm(n) ==
    IF n # <<>> /\ n[Len(n)] = 0 THEN NatNorm(SubSeq(n, 1, Len(n) - 1)) ELSE n

\* the retry policy as the specification words it, for a status code
StatusRetryableBySpec(st) == st = 429 \/ (st >= 500 /\ st # 501)

Returned == pc = "returned"

ReturnedLast == Returned /\ result = [resp |-> last.resp, raw |-> last.raw, err |-> last.err]

(***************************************************************************)
(* Properties.                                                             *)
(***************************************************************************)
\* C1: every request dispatched while a signer is configured carries, under
\* x-sign, the signer's output over exactly the bytes sent as its body (zero
\* bytes when the call has no body), whatever the default headers contain.
C1_XSignOverSentBody ==
    (last.req.sent /\ ~client.signer.isNil) =>
        /\ "X-Sign" \in DOMAIN last.req.headers
        /\ Sign(client.signer, last.req.body.b).err = NoErr
        /\ last.req.headers["X-Sign"] = Sign(client.signer, last.req.body.b).sig

\* a signed request without body was sent by a client whose default headers
\* hold an x-sign entry of their own
C1_Witness ==
    /\ last.req.sent
    /\ ~client.signer.isNil
    /\ "X-SIGN" \in DOMAIN client.defaultHeaders
    /\ last.req.body.isNil

\* C2: after an attempt that ended with a non-2xx status S the call goes on
\* only if S = 429 or (S >= 500 and S # 501); for any other S it has returned
\* that attempt's status error, whatever attempts remain.
C2_StatusRetryPolicy ==
    (last.stage = "status" /\ ~StatusRetryableBySpec(last.resp.status)) =>
        /\ ReturnedLast
        /\ result.err = HTTPStatusErrorOf(last.resp.status, last.raw)

\* a 501 ended a call that had attempts left
C2_Witness ==
    /\ last.stage = "status"
    /\ last.resp.status = 501
    /\ nAttempts < client.retryAttempts
    /\ Returned

\* C3: a call that was not cancelled and whose attempts all failed retryably
\* made exactly retryAttempts attempts and returned the last attempt's
\* failure unchanged.
C3_Exhaustion ==
    (Returned /\ ctxErr = "" /\ isRetryable(last.err, last.resp)) =>
        /\ nAttempts = client.retryAttempts
        /\ ReturnedLast

\* three or more attempts answered 500 and the last one's error was returned
C3_Witness ==
    /\ Returned
    /\ ctxErr = ""
    /\ last.stage = "status"
    /\ last.resp.status = 500
    /\ nAttempts = client.retryAttempts
    /\ nAttempts >= 3
    /\ Len(waits) = nAttempts - 1

\* C4: on every constructed client a call makes at least one attempt and
\* never more than the configured attempt count.
C4_AttemptBounds ==
    (pc \notin {"new", "construct_failed"}) =>
        /\ client.retryAttempts >= 1
        /\ nAttempts <= client.retryAttempts
        /\ (Returned => nAttempts >= 1)

\* a call cancelled during its first backoff returned after one attempt of
\* several allowed
C4_Witness ==
    /\ Returned
    /\ nAttempts = 1
    /\ client.retryAttempts >= 2
    /\ ctxErr # ""

\* C5: the k-th wait of a call equals W * 2^(k-1), W the initial wait, for
\* every k; there is no cap.
C5_BackoffDoubles ==
    \A k \in 1..Len(waits) :
        /\ ~DurNegative(waits[k])
        /\ NatNorm(waits[k]) = NatNorm(NatTimesPow2(client.retryWait, k - 1))

\* C6: once the context ended while the call was suspended in the backoff
\* wait, no further attempt starts, the interrupted wait does not elapse, and
\* the call returns the context's error.
C6_CancelDuringWait ==
    (cancelParkedAt # 0) =>
        /\ nAttempts = cancelParkedAt
        /\ Len(waits) = cancelParkedAt - 1
        /\ pc \in {"wake_ctx", "returned"}
        /\ (Returned => result.err = CtxErrValue(ctxErr))

\* a call returned the deadline error after being woken during its wait
C6_Witness ==
    /\ cancelParkedAt # 0
    /\ Returned
    /\ result.err = DeadlineExceeded

\* C7: an attempt whose failure is or wraps context.Canceled or
\* context.DeadlineExceeded is the last of its call, also when the failure is
\* a transport error and attempts remain.
C7_CtxFailureIsTerminal ==
    (last.stage # "none" /\ IsCtxError(last.err)) => ReturnedLast

\* a *url.Error wrapping the cancellation ended a call with attempts left
C7_Witness ==
    /\ last.stage = "dispatch"
    /\ last.req.sent
    /\ last.err = URLError(Canceled)
    /\ nAttempts < client.retryAttempts
    /\ Returned

C9_TransportFailureRetried ==
    (/\ last.stage \in {"dispatch", "read"}
     /\ last.req.sent
     /\ ~IsCtxError(last.err)
     /\ nAttempts < client.retryAttempts)
        => ~(Returned /\ result.err = last.err)

\* C10 as stated: a call with an attempt failing in encoding, signing or
\* decoding makes exactly one attempt and returns that error.
C10_ExactlyOneAttempt ==
    (last.stage \in {"encode", "sign", "decode"}) =>
        /\ ReturnedLast
        /\ nAttempts = 1

\* C10 amended: an attempt failing in encoding, signing or decoding is the
\* last of its call, which returns that error; an encode or sign error comes
\* in the first attempt, a decode error may follow retried attempts.
C10_TerminalErrorClasses ==
    (last.stage \in {"encode", "sign", "decode"}) =>
        /\ ReturnedLast
        /\ (last.stage \in {"encode", "sign"} => nAttempts = 1)

\* a decode error ended a call in its second attempt, a third one allowed
C10_Witness ==
    /\ last.stage = "decode"
    /\ nAttempts = 2
    /\ client.retryAttempts >= 3
    /\ Returned

\* C11: an attempt that succeeded (2xx and, when an output is requested, a
\* decoded body) is the last of its call: the call has returned that
\* attempt's response with a nil error, and no backoff wait followed it.
C11_SuccessReturnsAtOnce ==
    (last.stage = "ok") =>
        /\ ReturnedLast
        /\ result.err = NoErr
        /\ ~result.resp.isNil
        /\ result.resp.status \in 200..299
        /\ Len(waits) = nAttempts - 1

\* the second attempt of three allowed succeeded with a decoded output
C11_Witness ==
    /\ last.stage = "ok"
    /\ call.out
    /\ nAttempts = 2
    /\ client.retryAttempts >= 3
    /\ Returned

\* C14: when the body of a 2xx response does not decode into the requested
\* output, the call returns the decode error together with the response
\* (its status) and the complete body the server sent.
C14_DecodeErrorCarriesResponse ==
    (last.stage = "decode") =>
        /\ Returned
        /\ result.err = DecodeError
        /\ wire.answered
        /\ ~result.resp.isNil
        /\ result.resp.status = wire.status
        /\ wire.status \in 200..299
        /\ ~result.raw.isNil
        /\ result.raw.b = wire.body

\* a 200 whose body "{" does not decode ended a call
C14_Witness ==
    /\ last.stage = "decode"
    /\ Returned
    /\ wire.status = 200
    /\ wire.body = <<123>>
    /\ call.out

\* the number of events of one kind among the events of an attempt
EventCount(events, kind) == Cardinality({i \in DOMAIN events : events[i].kind = kind})

\* C20: with a recorder configured an attempt emits at most one request, one
\* response and one error event; a successful attempt emits one request
\* event, one response event and no error event; a failed attempt emits
\* exactly one error event.
C20_RecorderEvents ==
    (client.recorder /\ last.stage # "none") =>
        /\ EventCount(last.events, "request") <= 1
        /\ EventCount(last.events, "response") <= 1
        /\ EventCount(last.events, "error") <= 1
        /\ (last.err = NoErr =>
                /\ EventCount(last.events, "request") = 1
                /\ EventCount(last.events, "response") = 1
                /\ EventCount(last.events, "error") = 0)
        /\ (last.err # NoErr => EventCount(last.events, "error") = 1)

\* a recorded call had a failed attempt and then a successful one
C20_Witness ==
    /\ client.recorder
    /\ nAttempts = 2
    /\ last.stage = "ok"
    /\ [i \in DOMAIN last.events |-> last.events[i].kind] = <<"request", "response">>

(***************************************************************************)
(* Properties of the service-level calls.                                  *)
(***************************************************************************)
\* a service method has returned to its caller
ServiceReturned == pc = "svc_returned" /\ svc.phase = "returned"

\* err is a non-nil error whose outermost value has this type
IsA(err, t) == err # NoErr /\ err[1].t = t

\* the signer of the transport the service call uses
ServiceSigner == TransportOf(nova, svc.op.api).signer

C13_APIErrorWrapping ==
    ServiceReturned =>
        IF nAttempts > 0 /\ last.stage = "status" /\ result.err = last.err
        THEN /\ wire.answered
             /\ svc.err = APIErrorOf(wire.status, Bytes(wire.body))
        ELSE /\ ~IsA(svc.err, "*APIError")
             /\ (nAttempts > 0 => svc.err = result.err)
             /\ (nAttempts > 0 /\ result.err # NoErr /\ ~IsCtxError(result.err)
                    => svc.err = last.err)

\* the second attempt of a service call was answered 500 with a body and the
\* call returned the APIError of it
C13_Witness ==
    /\ ServiceReturned
    /\ nAttempts = 2
    /\ wire.status = 500
    /\ wire.body = <<123>>
    /\ svc.err = APIErrorOf(500, Bytes(<<123>>))

\* the request of the service call is nil or fails the field validation of
\* its method
RequestInvalid ==
    /\ svc.op.nilRule \in {"check", "validator", "substitute", "value"}
    /\ (svc.arg.isNil \/ Validate(svc.op.validator, svc.arg) # NoErr)

\* the request of the service call is one its method rejects: nil (except
\* for OperationsStatus, which puts an empty request in its place) or
\* failing the field validation
RequestRejected ==
    /\ svc.op.nilRule \in {"check", "validator", "value"}
    /\ (svc.arg.isNil \/ Validate(svc.op.validator, svc.arg) # NoErr)

\* the client is ready for the API of the service call
ServiceReady == svc.op.api = "comfort" => nova.cfg.comfortMerchantID # ""

\* the service call had no effect besides returning svc.err
NoEffect ==
    /\ nAttempts = 0
    /\ last = NoOutcome
    /\ ~wire.answered
    /\ svc.calls = <<>>

\* C15 as stated: a service call whose request is nil or fails field
\* validation returns a *ValidationError and has no other effect.
C15_InvalidRequestRejected ==
    (svc.phase \in {"dojson", "returned"} /\ RequestInvalid) =>
        /\ svc.phase = "returned"
        /\ IsA(svc.err, "*ValidationError")
        /\ NoEffect

\* C15 amended: on a client ready for the service, a call whose request its
\* method rejects (nil, except for OperationsStatus; or failing the field
\* validation) returns a *ValidationError and has no other effect: nothing
\* dispatched, no recorder event, no dry-run handler run.
C15_RejectedRequestHasNoEffect ==
    (svc.phase \in {"dojson", "returned"} /\ RequestRejected /\ ServiceReady) =>
        /\ svc.phase = "returned"
        /\ IsA(svc.err, "*ValidationError")
        /\ Len(svc.err[1].Fields) >= 1
        /\ NoEffect

\* a CreateSession with a nil request and the DryRun option returned the
\* validation error
C15_Witness ==
    /\ ServiceReturned
    /\ svc.op = AcquiringCreateSession
    /\ svc.arg.isNil
    /\ svc.runOpts = <<DryRun("h1")>>
    /\ svc.err = ValidationErrorOf(<<FieldError("request", "is nil")>>)

\* item i (0-based) has an empty amount and nothing else is wrong
OnlyFaultIsAmountOf(items, i) ==
    /\ i + 1 \in DOMAIN items
    /\ items[i + 1].Amount = ""
    /\ \A j \in DOMAIN items :
        /\ (j # i + 1 => items[j].Amount # "")
        /\ (items[j].Recipient.isNil
            \/ (/\ items[j].Recipient.LastName # ""
                /\ items[j].Recipient.FirstName # ""
                /\ items[j].Recipient.Patronymic # ""
                /\ items[j].Recipient.Phone # ""))

\* C16: validateComfortCreateOperations answers an empty RAW_BODY list with
\* a *ValidationError of exactly one field error, for "RAW_BODY", and a
\* request whose only fault is the empty amount of item i with exactly one
\* field error, for "RAW_BODY[i].amount".
C16_CreateOperationsValidation ==
    (svc.phase \in {"dojson", "returned"} /\ svc.op = ComfortCreateOperations) =>
        LET v == validateComfortCreateOperations(svc.arg)
        IN  /\ (Len(svc.arg.RawBody) = 0 =>
                    /\ IsA(v, "*ValidationError")
                    /\ Len(v[1].Fields) = 1
                    /\ v[1].Fields[1].Field = "RAW_BODY")
            /\ \A i \in 0..(Len(svc.arg.RawBody) - 1) :
                    OnlyFaultIsAmountOf(svc.arg.RawBody, i) =>
                        /\ IsA(v, "*ValidationError")
                        /\ Len(v[1].Fields) = 1
                        /\ v[1].Fields[1].Field = "RAW_BODY[" \o Itoa(i) \o "].amount"

\* the run options of the service call hold a DryRun option
DryRunGiven == \E i \in DOMAIN svc.runOpts : ~svc.runOpts[i].isNil

\* the handler of the last DryRun option; a DryRun option without handler,
\* or with a nil one, stands for the default handler
LastDryRunHandler ==
    LET i == CHOOSE k \in DOMAIN svc.runOpts :
                /\ ~svc.runOpts[k].isNil
                /\ \A j \in DOMAIN svc.runOpts : j > k => svc.runOpts[j].isNil
        h == svc.runOpts[i].handler
    IN  IF h \in {"", "nil"} THEN defaultDryRunHandler ELSE h

\* the payload the caller handed to the service method
CallerPayload ==
    IF svc.op.nilRule = "none" THEN BodyValue("nil", NilBytes)
    ELSE IF svc.op.nilRule = "any" THEN svc.arg
    ELSE AsAny(svc.arg)

\* the payload the service method sends: the caller's, or the empty request
\* OperationsStatus puts in place of a nil one
SentPayload ==
    IF svc.op.nilRule = "substitute" /\ svc.arg.isNil THEN AsAny(EmptyOperationsStatusRequest)
    ELSE CallerPayload

\* C17 as stated: a service call with the DryRun option on a valid request
\* dispatches nothing, runs the handler of the last DryRun option exactly
\* once with the method, the full URL and the caller's payload, and returns
\* a nil error.
C17_DryRunSkipsDispatch ==
    (svc.phase \in {"dojson", "returned"} /\ DryRunGiven /\ ~RequestInvalid) =>
        /\ svc.phase = "returned"
        /\ nAttempts = 0
        /\ svc.err = NoErr
        /\ svc.calls = <<[handler |-> LastDryRunHandler, method |-> svc.op.method,
                          url |-> BaseURL(nova, svc.op.api) \o svc.op.path,
                          payload |-> CallerPayload]>>

\* C17 amended: on a client ready for the service and with a base URL that
\* parses, a service call with the DryRun option whose request is not
\* rejected dispatches nothing, runs the handler of the last DryRun option
\* exactly once with the method, the full URL and the payload the method
\* would send (the caller's; for OperationsStatus with a nil request the
\* empty request put in its place), and returns a nil error.
C17_DryRunOnReadyClient ==
    (/\ svc.phase \in {"dojson", "returned"}
     /\ DryRunGiven
     /\ ~RequestRejected
     /\ ServiceReady
     /\ joinURL(BaseURL(nova, svc.op.api), svc.op.path).err = NoErr) =>
        /\ svc.phase = "returned"
        /\ nAttempts = 0
        /\ last = NoOutcome
        /\ svc.err = NoErr
        /\ svc.calls = <<[handler |-> LastDryRunHandler, method |-> svc.op.method,
                          url |-> BaseURL(nova, svc.op.api) \o svc.op.path,
                          payload |-> SentPayload]>>

\* a VoidSession with two DryRun options ran the handler of the second
C17_Witness ==
    /\ ServiceReturned
    /\ svc.op = AcquiringVoidSession
    /\ svc.runOpts = <<DryRun("h1"), DryRun("h2")>>
    /\ Len(svc.calls) = 1
    /\ svc.calls[1].handler = "h2"
    /\ svc.calls[1].payload = AsAny(GoodSession)

\* C18: on a client without comfort merchant id every ComfortService method
\* returns the not-configured error before validation, dry-run handling and
\* dispatch: no request is sent and no dry-run handler runs.
C18_ComfortNeedsMerchantID ==
    (/\ svc.phase \in {"dojson", "returned"}
     /\ svc.op.api = "comfort"
     /\ nova.cfg.comfortMerchantID = "") =>
        /\ svc.phase = "returned"
        /\ svc.err = ComfortNotReadyError
        /\ NoEffect

\* a CreateOperations with a faulty request and the DryRun option, on a
\* client without merchant id, returned the not-configured error
C18_Witness ==
    /\ ServiceReturned
    /\ nova.cfg.comfortMerchantID = ""
    /\ svc.op = ComfortCreateOperations
    /\ validateComfortCreateOperations(svc.arg) # NoErr
    /\ svc.runOpts = <<DryRun("h1")>>
    /\ svc.err = ComfortNotReadyError

\* C19: a request dispatched by a Comfort method carries x-merchant-id with
\* the configured comfort merchant id; a request dispatched by an Acquiring
\* or Checkout method carries no x-merchant-id.
C19_MerchantHeader ==
    (svc.phase \in {"dojson", "returned"} /\ last.req.sent) =>
        IF svc.op.api = "comfort"
        THEN /\ nova.cfg.comfortMerchantID # ""
             /\ "X-Merchant-Id" \in DOMAIN last.req.headers
             /\ last.req.headers["X-Merchant-Id"] = Str(nova.cfg.comfortMerchantID)
        ELSE "X-Merchant-Id" \notin DOMAIN last.req.headers

\* a Comfort request went out with the merchant id given as " 42 "
C19_Witness ==
    /\ svc.op = ComfortBalance
    /\ last.req.sent
    /\ nova.cfg.comfortMerchantID = "42"
    /\ nova.cfg.retryAttempts = 2
    /\ last.req.headers["X-Merchant-Id"] = Str("42")


(***************************************************************************)
(* Properties of the recorder, the request ids and the log.                *)
(***************************************************************************)
\* C21: with a recorder configured, when a call returns an error, that error
\* has been handed to the recorder's error hook, at whatever stage it arose,
\* the cancellation during the backoff wait included.
C21_ReturnedErrorWasRecorded ==
    (Returned /\ client.recorder /\ result.err # NoErr) =>
        \E i \in DOMAIN last.events :
            last.events[i].kind = "error" /\ last.events[i].err = result.err

\* what the caller and the server see of an attempt
Visible(o) == [resp |-> o.resp, raw |-> o.raw, err |-> o.err, req |-> o.req, stage |-> o.stage]

\* what the network may do with the attempt about to run
AttemptNets ==
    IF DispatchAllowed(ctxErr) THEN NetChoices(Cancellable)
    ELSE {NetChoice("doerr", 0, <<>>, NoErr, "")}

\* the attempt about to run, on the transport as it is but with or without
\* recorder, with hooks that fail or not, and with this request id
AttemptWith(rec, hooksFail, id, net, order) ==
    doOnce([client EXCEPT !.recorder = rec], ctxErr, call.body, call.out, call.urlOK, net, order,
           Memory(id, hooksFail, call.body.bs.b, call.body.bs.b, world.headers))

\* C22: whatever the network does, an attempt returns the same response,
\* body and error, builds and sends the same request and leads the loop to
\* the same decision without recorder, with a recorder whose hooks return
\* nil and with one whose hooks return errors; each failed hook is logged as
\* a warning, and no call returns a hook's error.
C22_HooksDoNotAlterOutcome ==
    /\ (pc = "attempt") =>
        \A net \in AttemptNets, order \in MapOrders(HeadersNow(client, world.headers)) :
            LET id   == nextRequestID(world.issued)
                none == AttemptWith(FALSE, FALSE, id, net, order)
                ok   == AttemptWith(TRUE, FALSE, id, net, order)
                bad  == AttemptWith(TRUE, TRUE, id, net, order)
            IN  /\ Visible(ok) = Visible(none)
                /\ Visible(bad) = Visible(none)
                /\ LoopDecision(client, attempt, ok) = LoopDecision(client, attempt, none)
                /\ LoopDecision(client, attempt, bad) = LoopDecision(client, attempt, none)
                /\ Len(bad.events) = Len(ok.events)
                /\ \A i \in DOMAIN bad.events :
                        /\ bad.events[i].hook = HookError
                        /\ \E j \in DOMAIN bad.logs :
                                /\ bad.logs[j].level = "warn"
                                /\ bad.logs[j].f.err = ErrorText(HookError)
    /\ ReturnedLast => result.err # HookError
    /\ (Returned /\ world.hooksFail) => result.err # HookError

\* a call on a transport whose recorder fails made two attempts and
\* succeeded, every hook call of the second attempt having failed
C22_Witness ==
    /\ Returned
    /\ client.recorder
    /\ world.hooksFail
    /\ nAttempts = 2
    /\ last.stage = "ok"
    /\ result.err = NoErr
    /\ Len(last.events) = 2
    /\ \A i \in DOMAIN last.events : last.events[i].hook = HookError

\* C23: the recorder events of one attempt carry one request id, which no
\* event of an earlier attempt, of this call or of an earlier one, carried;
\* the request an attempt builds does not depend on its request id.
C23_RequestIDs ==
    /\ \A i, j \in DOMAIN last.events : last.events[i].id = last.events[j].id
    /\ \A i \in DOMAIN last.events : last.events[i].id \notin world.seen
    /\ (pc = "attempt") =>
        \A net \in AttemptNets, order \in MapOrders(HeadersNow(client, world.headers)) :
            LET id == nextRequestID(world.issued)
            IN  AttemptWith(client.recorder, world.hooksFail, id, net, order).req
                    = AttemptWith(client.recorder, world.hooksFail, id + 1, net, order).req

\* the first attempt of a second call emitted a request, a response and an
\* error event, after the two attempts of the first call
C23_Witness ==
    /\ client.recorder
    /\ nAttempts = 1
    /\ Cardinality(world.seen) = 2
    /\ last.stage = "status"
    /\ Len(last.events) = 3


\* the messages the pass of the loop about to run logs when the call's body
\* is this one and the network does this
LogsOf(body, net, order) ==
    LoopLogs(client, attempt, wait,
             doOnce(client, ctxErr, body, call.out, call.urlOK, net, order,
                    Memory(nextRequestID(world.issued), world.hooksFail, body.bs.b, body.bs.b,
                           world.headers)))

\* the same body with other content of the same length
OtherBody(body) ==
    IF body.kind \in {"bytes", "string"} /\ ~body.bs.isNil
    THEN [body EXCEPT !.bs = Bytes(Overwritten(body.bs.b))]
    ELSE body

\* C24: while verbose body logging is off, the messages a pass of the loop
\* logs are the same for two runs that differ only in the content, not the
\* length, of the request body or of the response body.
C24_LogsDependOnSizesOnly ==
    (pc = "attempt" /\ ~client.logBodies) =>
        \A net \in AttemptNets, order \in MapOrders(HeadersNow(client, world.headers)) :
            /\ LogsOf(call.body, net, order)
                    = LogsOf(call.body, [net EXCEPT !.body = Overwritten(net.body)], order)
            /\ LogsOf(call.body, net, order) = LogsOf(OtherBody(call.body), net, order)


(***************************************************************************)
(* Properties of the request headers and of the memory shared with the     *)
(* caller.                                                                 *)
(***************************************************************************)
\* the non-empty values a header map holds under names that are this
\* header's name once canonical
DefaultValues(m, canon) ==
    {m[k] : k \in {x \in DOMAIN m : x # "" /\ m[x] # "" /\ CanonicalHeaderKey(x) = canon}}

Answered2xx == wire.answered /\ wire.status >= 200 /\ wire.status < 300

\* C25 as stated: a transport without a signer dispatches its requests
\* without x-sign header, and its call succeeds when the server answers 2xx.
C25_NoSignerNoXSign ==
    (client.signer.isNil /\ last.req.sent) =>
        /\ "X-Sign" \notin DOMAIN last.req.headers
        /\ (Answered2xx => Returned /\ result.err = NoErr)

\* C25: a transport without a signer adds no x-sign header of its own: its
\* requests carry one exactly when its default headers hold a non-empty
\* value under that name, and then this value; when the server answers 2xx
\* with a body that is read completely and, if an output is given, decodes,
\* the call returns at once with that response and no error.
C25_NoSignerAddsNoXSign ==
    (client.signer.isNil /\ last.req.built) =>
        /\ ("X-Sign" \in DOMAIN last.req.headers) <=> (DefaultValues(world.given, "X-Sign") # {})
        /\ ("X-Sign" \in DOMAIN last.req.headers) =>
                \E v \in DefaultValues(world.given, "X-Sign") : last.req.headers["X-Sign"] = Str(v)
        /\ (Answered2xx /\ (call.out => Decodes(wire.body))) =>
                /\ last.req.sent
                /\ Returned
                /\ result = [resp |-> Resp(wire.status), raw |-> Bytes(wire.body), err |-> NoErr]

\* a call on a transport without signer and without default headers sent a
\* request without x-sign and succeeded
C25_Witness ==
    /\ client.signer.isNil
    /\ world.given = NoHeaders
    /\ last.req.sent
    /\ "X-Sign" \notin DOMAIN last.req.headers
    /\ Answered2xx
    /\ Returned
    /\ result.err = NoErr

\* C26 as stated: every dispatched request carries Accept: application/json,
\* carries Content-Type: application/json exactly when the call has a body,
\* and no header stems from a default header with empty name or value.
C26_AcceptAndContentType ==
    last.req.sent =>
        LET h == last.req.headers
        IN  /\ "Accept" \in DOMAIN h
            /\ h["Accept"] = Str("application/json")
            /\ ("Content-Type" \in DOMAIN h) <=> (call.body.kind # "nil")
            /\ ("Content-Type" \in DOMAIN h) => h["Content-Type"] = Str("application/json")
            /\ "" \notin DOMAIN h
            /\ \A k \in DOMAIN h : h[k].text # ""

\* C26: every request carries an Accept header, application/json unless a
\* default header of that name with a non-empty value replaces it; it
\* carries a Content-Type header exactly when the call has a body or a
\* default header of that name has a non-empty value, application/json
\* unless that default header replaces it; no header has an empty name or an
\* empty value.
C26_HeadersUnlessOverridden ==
    last.req.built =>
        LET h   == last.req.headers
            acc == DefaultValues(client.defaultHeaders, "Accept")
            ct  == DefaultValues(client.defaultHeaders, "Content-Type")
        IN  /\ "Accept" \in DOMAIN h
            /\ IF acc = {} THEN h["Accept"] = Str("application/json")
               ELSE \E v \in acc : h["Accept"] = Str(v)
            /\ ("Content-Type" \in DOMAIN h) <=> (call.body.kind # "nil" \/ ct # {})
            /\ ("Content-Type" \in DOMAIN h) =>
                    IF ct = {} THEN h["Content-Type"] = Str("application/json")
                    ELSE \E v \in ct : h["Content-Type"] = Str(v)
            /\ "" \notin DOMAIN h
            /\ \A k \in DOMAIN h : h[k].text # ""

\* a request with a body was sent by a transport whose default headers hold
\* an entry with an empty name
C26_Witness ==
    /\ last.req.sent
    /\ "" \in DOMAIN client.defaultHeaders
    /\ call.body.kind = "bytes"
    /\ last.req.headers["Accept"] = Str("application/json")
    /\ last.req.headers["Content-Type"] = Str("application/json")
    /\ "X-Trace" \in DOMAIN last.req.headers

\* C27: whatever the caller does to the header map after New, every request
\* carries, besides Accept, Content-Type and x-sign, exactly the headers of
\* the non-empty entries the map held when it was handed to New, and Accept
\* and Content-Type are replaced only by entries it held then.
C27_CallerMapMutation ==
    last.req.built =>
        LET h     == last.req.headers
            given == world.given
            own   == {"Accept", "Content-Type", "X-Sign"}
        IN  /\ \A k \in DOMAIN given :
                    (k # "" /\ given[k] # "" /\ CanonicalHeaderKey(k) \notin own) =>
                        /\ CanonicalHeaderKey(k) \in DOMAIN h
                        /\ h[CanonicalHeaderKey(k)] = Str(given[k])
            /\ \A hk \in DOMAIN h \ own : DefaultValues(given, hk) # {}
            /\ (DefaultValues(given, "Accept") = {}) => h["Accept"] = Str("application/json")
            /\ (DefaultValues(given, "Accept") # {}) =>
                    \E v \in DefaultValues(given, "Accept") : h["Accept"] = Str(v)
            /\ (DefaultValues(given, "Content-Type") = {} /\ "Content-Type" \in DOMAIN h) =>
                    h["Content-Type"] = Str("application/json")

\* the second attempt of a call sent its request after the caller had
\* changed the header map
C27_Witness ==
    /\ world.headers # world.given
    /\ nAttempts = 2
    /\ last.req.sent
    /\ "X-Trace" \in DOMAIN last.req.headers
    /\ last.req.headers["X-Trace"] = Str("t1")

\* C28: an attempt on a byte-slice or string body builds its request from
\* the caller's bytes as they are when the attempt begins: these are the
\* bytes it sends and the bytes its signature is over, also when the caller
\* overwrites the buffer while the attempt runs.
C28_BodyBytesAtPrepare ==
    [][(/\ pc = "attempt"
        /\ call.body.kind \in {"bytes", "string"}
        /\ nAttempts' = nAttempts + 1
        /\ last'.req.built) =>
            /\ last'.req.body = Bytes(call.body.bs.b)
            /\ (~client.signer.isNil) =>
                    /\ last'.req.headers["X-Sign"].over = call.body.bs.b
                    /\ last'.req.headers["X-Sign"].over = last'.req.body.b]_vars

\* the only attempt of a call sent and signed the bytes the caller's buffer
\* held before the caller overwrote it
C28_Witness ==
    /\ Returned
    /\ nAttempts = 1
    /\ call.body.kind = "bytes"
    /\ last.req.sent
    /\ ~client.signer.isNil
    /\ call.body.bs.b = Overwritten(last.req.body.b)
    /\ call.body.bs.b # last.req.body.b
    /\ last.req.headers["X-Sign"].over = last.req.body.b


(***************************************************************************)
(* Properties of the two signers.                                          *)
(***************************************************************************)
RECURSIVE ExpectedHash(_, _, _)
\* the algorithm of the last option in the list that addresses this signer,
\* or the default
ExpectedHash(opts, signer, default) ==
    IF opts = <<>> THEN default
    ELSE LET o == opts[Len(opts)]
         IN  IF o[1] \in {"all", signer} THEN o[2]
             ELSE ExpectedHash(SubSeq(opts, 1, Len(opts) - 1), signer, default)

\* the crypto.Hash of an algorithm name
CryptoHash(algo) == IF algo = HashSHA1 THEN "crypto.SHA1" ELSE "crypto.SHA256"

\* C29: the external signer hashes with the algorithm of the last
\* WithSignatureHash or WithExternalSignatureHash option, SHA-256 if there is
\* none, the Comfort signer with that of the last WithSignatureHash or
\* WithComfortSignatureHash option, SHA-1 if there is none; Acquiring and
\* Checkout requests carry the external signer's signature over the body
\* sent, Comfort requests the Comfort signer's.
C29_SignerHashes ==
    /\ (~nova.isNil) =>
        /\ nova.cfg.externalSigner.hash = ExpectedHash(nova.hashOpts, "external", HashSHA256)
        /\ nova.cfg.comfortSigner.hash = ExpectedHash(nova.hashOpts, "comfort", HashSHA1)
        /\ nova.externalHTTP.signer = nova.cfg.externalSigner
        /\ nova.comfortHTTP.signer = nova.cfg.comfortSigner
    /\ (svc.phase \in {"dojson", "returned"} /\ last.req.sent) =>
        LET algo == IF svc.op.api = "comfort"
                    THEN ExpectedHash(nova.hashOpts, "comfort", HashSHA1)
                    ELSE ExpectedHash(nova.hashOpts, "external", HashSHA256)
        IN  /\ "X-Sign" \in DOMAIN last.req.headers
            /\ last.req.headers["X-Sign"]
                    = SigString((IF svc.op.api = "comfort" THEN nova.cfg.comfortSigner
                                 ELSE nova.cfg.externalSigner).priv, CryptoHash(algo),
                                SigInput(last.req.body))

\* a Comfort request was sent with a SHA-256 signature and the external
\* signer of the same client hashes with SHA-1
C29_Witness ==
    /\ svc.phase \in {"dojson", "returned"}
    /\ svc.op.api = "comfort"
    /\ last.req.sent
    /\ last.req.headers["X-Sign"].hash = "crypto.SHA256"
    /\ nova.cfg.externalSigner.hash = HashSHA1
    /\ Len(nova.hashOpts) = 2

\* the signer Verify or VerifyComfort used
VerifySigner == IF svc.op.api = "comfort" THEN nova.cfg.comfortSigner ELSE nova.cfg.externalSigner

\* C30: Verify of a signature made by Sign succeeds exactly when the
\* verifier's public key is that of the signing key, its hash algorithm the
\* signer's, and the body the signed body; with a changed body or the other
\* algorithm it fails with the verification error.
C30_SignVerifyRoundTrip ==
    (svc.phase = "verified" /\ VerifySigner.pub # ""
        /\ VerifySigner.hash \in {HashSHA256, HashSHA1}) =>
        \A x \in SignedArgs :
            (svc.calls[1].xSign = SigText(x)) =>
                LET body == svc.calls[1].body
                    same == /\ PublicOf(x.key) = VerifySigner.pub
                            /\ x.hash = CryptoHash(VerifySigner.hash)
                            /\ x.over = body
                IN  /\ same => svc.err = NoErr
                    /\ ~same => svc.err = VerifyFailedError

\* VerifyComfort accepted a SHA-1 signature of "{}" made with the matching
\* key
C30_Witness ==
    /\ svc.phase = "verified"
    /\ svc.op.api = "comfort"
    /\ VerifySigner.hash = HashSHA1
    /\ svc.calls[1].body = JSONObject
    /\ svc.calls[1].xSign = SigText(Sign(RSASigner("key1", HashSHA1), JSONObject).sig)
    /\ svc.err = NoErr


\* the signature string, the body and the signer of the Verify call made
VerifyInput == svc.calls[1].xSign

VerifyBody == svc.calls[1].body

\* C31: a signature string Verify accepts for a body is also accepted with
\* whitespace before and after it and with its '=' padding removed, and
\* decodeSignatureBase64 gives the same bytes for the three forms.
C31_SignatureTolerance ==
    (svc.phase = "verified" /\ svc.err = NoErr) =>
        /\ Verify(VerifySigner, VerifyBody, WithSpace(VerifyInput)) = NoErr
        /\ Verify(VerifySigner, VerifyBody, StripPadding(VerifyInput)) = NoErr
        /\ decodeSignatureBase64(VerifyInput).ok
        /\ decodeSignatureBase64(WithSpace(VerifyInput)) = decodeSignatureBase64(VerifyInput)
        /\ decodeSignatureBase64(StripPadding(VerifyInput)) = decodeSignatureBase64(VerifyInput)

\* Verify accepted a signature of "{}" that had lost its two '=' and was
\* wrapped in whitespace
C31_Witness ==
    /\ svc.phase = "verified"
    /\ svc.err = NoErr
    /\ VerifyBody = JSONObject
    /\ TrailingPads(SigText(Sign(RSASigner("key1", HashSHA256), JSONObject).sig)) = 2
    /\ VerifyInput
          = WithSpace(StripPadding(SigText(Sign(RSASigner("key1", HashSHA256), JSONObject).sig)))

\* the hash algorithm names digest knows
KnownHashNames == {HashSHA256, "", "sha256", "SHA256", HashSHA1, "sha1", "SHA1"}

\* C32: Verify reports a missing public key first; otherwise an empty
\* signature (after trimming); otherwise a signature that is neither padded
\* nor unpadded base64; otherwise an unsupported hash algorithm; otherwise a
\* mismatch; otherwise it succeeds.  The five errors differ from each other.
C32_VerifyPrecedence ==
    /\ (svc.phase = "verified" /\ ~nova.isNil) =>
        LET t     == TrimLeft(TrimRight(VerifyInput))
            std   == DecodeString(TRUE, t)
            raw   == DecodeString(FALSE, t)
            bytes == IF std.ok THEN std.bytes ELSE raw.bytes
            want  == <<1, IF VerifySigner.hash \in {HashSHA1, "sha1", "SHA1"} THEN 2 ELSE 1>>
                     \o VerifyBody
        IN  svc.err =
                IF VerifySigner.pub = "" THEN VerifyNoKeyError
                ELSE IF t = <<>> THEN VerifyEmptyError
                ELSE IF ~std.ok /\ ~raw.ok THEN VerifyBase64Error
                ELSE IF VerifySigner.hash \notin KnownHashNames THEN SignBadHashError
                ELSE IF VerifySigner.pub # "pub1" \/ bytes # want THEN VerifyFailedError
                ELSE NoErr
    /\ \A e1, e2 \in {1, 2, 3, 4, 5, 6} :
        LET errs == <<VerifyNoKeyError, VerifyEmptyError, VerifyBase64Error, SignBadHashError,
                      VerifyFailedError, NoErr>>
        IN  e1 # e2 => errs[e1] # errs[e2]

\* a verifier with a public key and an unsupported algorithm was handed a
\* string that is no base64 and reported the encoding
C32_Witness ==
    /\ svc.phase = "verified"
    /\ ~nova.isNil
    /\ VerifySigner.pub = "pub1"
    /\ VerifySigner.hash = "MD5"
    /\ VerifyInput = <<33>>
    /\ svc.err = VerifyBase64Error


(***************************************************************************)
(* The log level.                                                          *)
(***************************************************************************)
\* C33: once SetLogLevel(L) has been called on a client whose logger has
\* SetLevel, the logger writes, of the messages a later call hands to it,
\* exactly those whose severity is not below L; at LevelInfo no debug
\* message is written, at LevelOff none at all.
C33_LogLevel ==
    (~nova.isNil /\ world.logger.kind = "std" /\ world.levelSet >= 0) =>
        /\ world.logger.level = world.levelSet
        /\ \A i \in DOMAIN logged :
            (\E j \in DOMAIN world.written : world.written[j] = logged[i])
                <=> Severity(logged[i].level) >= world.levelSet
        /\ world.written = SelectSeq(logged, LAMBDA m : Severity(m.level) >= world.levelSet)
        /\ world.levelSet >= LevelInfo => \A j \in DOMAIN world.written :
                                              world.written[j].level # "debug"
        /\ world.levelSet = LevelOff => world.written = <<>>

\* a call on a client whose logger started at LevelInfo, made after
\* SetLogLevel(LevelDebug), had its debug messages written
C33_Witness ==
    /\ ~nova.isNil
    /\ nova.cfg.logger = NewDefault
    /\ world.levelSet = LevelDebug
    /\ pc = "svc_returned"
    /\ \E j \in DOMAIN world.written : world.written[j].level = "debug"

(***************************************************************************)
(* The attempts of one call: body, result, events and waits.               *)
(***************************************************************************)
\* C36: every attempt of a call after the first sends the body bytes the
\* attempt before it sent, with a signature over those bytes, also when the
\* caller overwrote its buffer between the two attempts (the caller writes
\* nothing while either attempt runs).
C36_SameBodyEveryAttempt ==
    [][(/\ pc = "attempt"
        /\ nAttempts >= 1
        /\ nAttempts' = nAttempts + 1
        /\ call' = call
        /\ last.req.built
        /\ last'.req.built
        /\ (~client.signer.isNil) => last.req.headers["X-Sign"].over = last.req.body.b) =>
            /\ last'.req.body = last.req.body
            /\ (~client.signer.isNil) =>
                    last'.req.headers["X-Sign"] = last.req.headers["X-Sign"]]_vars

\* the last attempt of the call ended as DoJSON reports success: a 2xx
\* response read to its end and, when out was given, decoded into it
LastAttemptSucceeded ==
    /\ nAttempts >= 1
    /\ last.req.sent
    /\ wire.answered
    /\ wire.status \in 200..299
    /\ call.out => Decodes(wire.body)

\* C37: DoJSON returns a nil error exactly when its last attempt received a
\* 2xx response, read the whole body and decoded it where an output was
\* requested; then it hands back that response and body.
C37_NilErrorIffSuccess ==
    Returned =>
        /\ (result.err = NoErr) <=> LastAttemptSucceeded
        /\ (result.err = NoErr) =>
                /\ result.resp = Resp(wire.status)
                /\ result.raw = Bytes(wire.body)
                /\ last.stage = "ok"

\* a call with an output returned nil from its second attempt
C37_Witness ==
    /\ Returned
    /\ result.err = NoErr
    /\ call.out
    /\ nAttempts = 2
    /\ wire.body = JSONObject

\* the kinds of the events of the latest attempt, in the order emitted
EventKinds == [i \in DOMAIN last.events |-> last.events[i].kind]

\* C38: the events of an attempt come in one order.  A request event is the
\* first event, is emitted once the request was encoded, built and signed,
\* and is emitted whether or not the dispatch that follows puts anything on
\* the wire; a response event follows it and carries the whole body read;
\* for a non-2xx status or a decode failure the error event comes after the
\* response event; an attempt that fails in encoding, construction or
\* signing emits the error event alone.
C38_EventOrder ==
    (client.recorder /\ last.stage # "none") =>
        /\ last.stage \in {"encode", "newrequest", "sign"} =>
                /\ EventKinds = <<"error">>
                /\ ~last.req.built
        /\ last.stage \in {"dispatch", "read"} => EventKinds = <<"request", "error">>
        /\ last.stage \in {"status", "decode"} =>
                EventKinds = <<"request", "response", "error">>
        /\ last.stage = "ok" => EventKinds = <<"request", "response">>
        /\ last.req.built <=> (EventKinds # <<>> /\ EventKinds[1] = "request")
        /\ \A i \in DOMAIN last.events :
            /\ last.events[i].kind = "request" =>
                    /\ i = 1
                    /\ last.events[i].body = SigInput(last.req.body)
                    /\ (~client.signer.isNil) => "X-Sign" \in DOMAIN last.req.headers
            /\ last.events[i].kind = "response" =>
                    /\ i = 2
                    /\ wire.answered
                    /\ last.events[i].body = wire.body
            /\ last.events[i].kind = "error" =>
                    /\ i = Len(last.events)
                    /\ last.events[i].err = last.err

\* a signed attempt was answered 200 with a body that does not decode
C38_Witness ==
    /\ client.recorder
    /\ ~client.signer.isNil
    /\ last.stage = "decode"
    /\ EventKinds = <<"request", "response", "error">>
    /\ last.events[2].body = <<123>>

\* C39: every backoff wait a call performs, and the wait it is about to
\* perform, is greater than zero.
C39_WaitPositive ==
    /\ \A k \in DOMAIN waits : DurPositive(waits[k])
    /\ pc \in {"select", "parked"} => DurPositive(wait)

\* a DoJSON call is running
InCall == pc \in {"attempt", "select", "parked", "wake_ctx"}

\* every attempt that begins returns: the call is not in doOnce for ever
EachAttemptReturns == []<>(pc # "attempt")

\* C40: provided every attempt that begins returns, a DoJSON call that has
\* begun returns, whatever its attempts end with and whether or not its
\* context is cancelled.
C40_CallReturns == EachAttemptReturns => (InCall ~> Returned)

\* a call whose context stayed live returned after three attempts and two
\* waits
C40_Witness ==
    /\ Returned
    /\ ctxErr = ""
    /\ nAttempts = 3
    /\ Len(waits) = 2
    /\ result.err # NoErr

(***************************************************************************)
(* Concurrent calls.                                                       *)
(***************************************************************************)
\* the doOnce executions of a call that are in progress
InProgress(q) == q.started - q.finished

\* C34: no call ever has two attempts in progress, and a call begins an
\* attempt only when its attempts so far have all returned; an attempt
\* after the first begins only when the one before it returned a retryable
\* failure and the backoff wait that followed it has elapsed.
C34_SequentialAttempts ==
    [][\A p \in ProcIDs :
        /\ InProgress(procs[p]) \in {0, 1}
        /\ InProgress(procs'[p]) \in {0, 1}
        /\ (procs'[p].started = procs[p].started + 1) =>
                /\ InProgress(procs[p]) = 0
                /\ procs'[p].started = procs[p].attempt
                /\ Len(procs[p].outcomes) = procs[p].started
                /\ Len(procs[p].waits) = procs[p].started
                /\ \A k \in 1..procs[p].started :
                    /\ procs[p].outcomes[k].err # NoErr
                    /\ isRetryable(procs[p].outcomes[k].err, procs[p].outcomes[k].resp)]_vars

\* a call is in its third attempt while the other call is in its first
C34_Witness ==
    /\ procs[1].pc = "doOnce"
    /\ procs[1].started = 3
    /\ procs[2].pc = "doOnce"
    /\ procs[2].started = 1

RECURSIVE SoloDoJSON(_, _, _, _, _)
\* DoJSON running alone on transport c, from attempt n with wait w: what it
\* does when its doOnce executions return outs in this order and its select
\* takes the ctx case after attempt ctxTaken (0: never).  attempts counts
\* the doOnce executions, waits are the waits that elapsed or began, wait
\* is the loop variable at the end.
SoloDoJSON(c, n, w, outs, ctxTaken) ==
    IF n > c.retryAttempts \/ outs = <<>>
    THEN [attempts |-> 0, waits |-> <<>>, wait |-> w, returned |-> n > c.retryAttempts]
    ELSE IF LoopDecision(c, n, Head(outs)) = "return" \/ ctxTaken = n
    THEN [attempts |-> 1, waits |-> <<>>, wait |-> w, returned |-> TRUE]
    ELSE LET r == SoloDoJSON(c, n + 1, DurDouble(w), Tail(outs), ctxTaken)
         IN  [attempts |-> 1 + r.attempts, waits |-> <<w>> \o r.waits, wait |-> r.wait,
              returned |-> r.returned]

\* the call alone, given the outcomes call p has had
SoloOf(p) == SoloDoJSON(client, 1, client.retryWait, procs[p].outcomes, procs[p].ctxTaken)

\* C35: at every moment and under every interleaving, a call has made the
\* attempts and got through the waits it would have alone with the outcomes
\* it has had: its attempt counter, its wait variable, the waits elapsed and
\* whether it has returned are those of the solo run.
C35_IndependentRetryState ==
    \A p \in ProcIDs :
        (pc = "idle" /\ procs[p].pc # "idle") =>
            /\ procs[p].finished = SoloOf(p).attempts
            /\ procs[p].finished <= client.retryAttempts
            /\ (procs[p].pc = "returned") = SoloOf(p).returned
            /\ procs[p].pc \in {"attempt", "doOnce", "returned"} =>
                    /\ procs[p].waits = SoloOf(p).waits
                    /\ procs[p].wait = SoloOf(p).wait
            /\ procs[p].pc = "select" =>
                    /\ Append(procs[p].waits, procs[p].wait) = SoloOf(p).waits
                    /\ DurDouble(procs[p].wait) = SoloOf(p).wait
                    /\ procs[p].attempt = procs[p].finished

\* one call has returned after three attempts and two waits while the other,
\* begun before it, is still in the wait after its first attempt
C35_Witness ==
    /\ procs[1].pc = "select"
    /\ procs[1].finished = 1
    /\ procs[2].pc = "returned"
    /\ procs[2].finished = 3
    /\ Len(procs[2].waits) = 2
    /\ procs[2].ctxTaken = 0

====
